---- MODULE Spec2Model ----
(***************************************************************************)
(* Verification model of the wabe benchmark harness.                       *)
(*                                                                         *)
(*   SchedSpec   BrowserJudge.run_eval: the parallel scheduler             *)
(*               (scenarios/web_browser/browser_judge.py)                  *)
(*   ClientSpec  MCPBrowserClient: lifecycle, handshake, discovery, calls  *)
(*               (src/shared/mcp_client.py)                                *)
(*   ValSpec     MCPBrowserClient._validate_arguments as a pure function   *)
(*   LoopSpec    BrowserJudge._run_task_loop: one task's step loop         *)
(*               (scenarios/web_browser/browser_judge.py)                  *)
(*   ParserSpec  parse_white_agent_response as a pure function             *)
(*               (src/shared/response_parser.py)                           *)
(*   FacadeSpec  BrowserAgent: execute_action, history and screenshots     *)
(*               (src/shared/browser_agent.py)                             *)
(*   ReplaySpec  ReliabilityAgent: the scripted replay agent               *)
(*               (scenarios/web_browser/agents/reliability.py)             *)
(*   StartupSpec concurrent MCPBrowserClient.start calls and _startup_lock *)
(*               (src/shared/mcp_client.py)                                *)
(*   MsgSpec     send_message and ToolProvider.talk_to_agent               *)
(*               (src/agentbeats/client.py, tool_provider.py)              *)
(***************************************************************************)
EXTENDS Integers, Sequences, FiniteSets, TLC

\* ------------------------------------------------------------------ bounds
MaxTasks == 3
MaxCeiling == 2
MaxMsgId == 5
MaxStarts == 2
MaxSteps == 7
MaxStepDelay == 1
MaxItems == 2
MaxCalls == 3
MaxEvents == 9
MaxOthers == 1
MaxLines == 2
MaxStartCalls == 3
MaxClients == 2
MaxRetries == 3
MaxTalks == 2

None == "None"

VARIABLES
    \* ---- scheduler (BrowserJudge.run_eval)
    _level,              \* BrowserJudge._level
    _limit,              \* BrowserJudge._limit (0 stands for None)
    MAX_PARALLEL_TASKS,  \* green_agent.constants.MAX_PARALLEL_TASKS
    merged_tasks,        \* the tasks submitted after filtering
    semaphore,           \* value of asyncio.Semaphore(MAX_PARALLEL_TASKS)
    pc,                  \* per task: position inside run_with_semaphore
    success,             \* per task: local of _run_single_task
    step_count,          \* per task: local of _run_single_task
    error_message,       \* per task: local of _run_single_task
    exc,                 \* per task: text of the last exception it raised
    run_pc,              \* position of run_eval: "gathering" | "reported"
    task_results,        \* run_eval's task_results list
    \* ---- protocol client (MCPBrowserClient)
    server_process,      \* 0 for None, else the number of the launched subprocess
    _message_id,         \* MCPBrowserClient._message_id
    _initialized,        \* MCPBrowserClient._initialized
    _server_info,        \* MCPBrowserClient._server_info ("None" or "info")
    _tools_cache,        \* MCPBrowserClient._tools_cache
    _tools_by_name,      \* MCPBrowserClient._tools_by_name
    _user_data_dir,      \* MCPBrowserClient._user_data_dir ("None" or "dir")
    launched,            \* number of subprocesses launched so far
    sent,                \* every request this client wrote to a server's stdin
    outstanding,         \* requests the current server has not answered yet
    holder,              \* reader thread inside stdout.readline (0: none)
    waiting,             \* reader threads queued on the stdout buffer lock
    op_pc,               \* the await the client's current call is suspended at
    op_id,               \* id of the request whose response that call awaits
    last,                \* how the last completed call ended
    lifecycle,           \* outcome of the last start()/stop(): new|ready|failed|stopped
    running,             \* the launched subprocesses that have not exited
    dirs,                \* the mkdtemp directories on disk, by subprocess number
    stop_log,            \* what the last stop() of a server did to its process
    \* ---- argument validation as a pure function
    val_by_name,         \* a schema cache
    val_tool_name,       \* the tool name validated
    val_args,            \* the arguments validated
    val_result,          \* the result of _validate_arguments
    \* ---- task step loop (BrowserJudge._run_task_loop); lp_ marks the locals
    \* whose names the scheduler's per-task variables already use
    max_steps,           \* parameter max_steps
    step_delay,          \* parameter step_delay, in seconds
    step,                \* the value range(max_steps) yields next
    lp_step_count,       \* local step_count
    lp_success,          \* local success
    thoughts,            \* local thoughts (the number of entries)
    lp_error_message,    \* local error_message
    browser_closed,      \* local browser_closed
    error_feedback,      \* local error_feedback: "None" | "parse" | the action feedback
    consecutive_parse_errors,
    current_delay,       \* delays are counted in DelayUnit-ths of a second
    min_delay,
    max_delay,
    consecutive_successes,
    action_history,      \* BrowserAgent.action_history (tool of each entry)
    agent_calls,         \* number of talk_to_agent calls made
    last_call,           \* the latest talk_to_agent call and how its step went on
    executed,            \* number of execute_action calls made
    last_executed,       \* the latest execute_action call
    loop_pc,             \* "idle" | "loop" | "returned" | "raised"
    \* ---- response parser (parse_white_agent_response) as a pure function
    response_text,       \* the agent's reply: its items and its length in characters
    parsed,              \* what the call did: returned a value or raised
    \* ---- browser facade (BrowserAgent); ba_ marks the fields whose names the
    \* other components already use
    page,                \* BrowserAgent.page is set (the browser was started)
    ba_step_count,       \* BrowserAgent.step_count
    ba_action_history,   \* BrowserAgent.action_history
    screenshots,         \* BrowserAgent.screenshots (the names of the files)
    ba_result,           \* what the last execute_action call returned
    facade_call,         \* the last execute_action call: its tool and what raised
    facade_calls,        \* number of execute_action calls made
    \* ---- replay agent (ReliabilityAgent)
    session_events,      \* ctx.session.events: the author of each event
    user_content,        \* ctx.user_content of the last invocation, line by line
    yielded,             \* the events the last invocation yielded
    invocations,         \* number of invocations made
    \* ---- concurrent start() calls on several clients (MCPBrowserClient.start)
    st_client,           \* per start() call: the client it is called on
    st_pc,               \* per call: "new" | "waiting" | "starting" | "returned" | "raised"
    startup_lock,        \* _startup_lock: the call that holds it (0: free)
    lock_waiters,        \* the calls suspended in _startup_lock.acquire(), in order
    cl_server_process,   \* per client: server_process (0 for None)
    cl_launched,         \* per client: the subprocesses launched for it so far
    popen_count,         \* number of subprocesses launched by all clients
    \* ---- agent messaging (agentbeats send_message and ToolProvider)
    max_retries,         \* send_message: its max_retries argument
    retry_count,         \* send_message: retry_count
    sm_pc,               \* send_message: "idle" | "attempt" | "returned" | "raised"
    attempts,            \* number of passes through the try block of this call
    delays,              \* the delays slept by this call, in order
    attempt_error,       \* the exception the last pass raised, if it raised
    sm_result,           \* what the call returned, or the exception it raised
    _context_ids,        \* ToolProvider._context_ids, per URL (None: no entry)
    completed_ids,       \* per URL: context id the last completed exchange returned
    talk,                \* the last talk_to_agent call and how it ended
    talks                \* number of talk_to_agent calls made

schedVars == <<_level, _limit, MAX_PARALLEL_TASKS, merged_tasks, semaphore, pc,
               success, step_count, error_message, exc, run_pc, task_results>>

clientVars == <<server_process, _message_id, _initialized, _server_info, _tools_cache,
                _tools_by_name, _user_data_dir, launched, sent, outstanding, holder,
                waiting, op_pc, op_id, last, lifecycle, running, dirs, stop_log>>

valVars == <<val_by_name, val_tool_name, val_args, val_result>>

loopVars == <<max_steps, step_delay, step, lp_step_count, lp_success, thoughts,
              lp_error_message, browser_closed, error_feedback,
              consecutive_parse_errors, current_delay, min_delay, max_delay,
              consecutive_successes, action_history, agent_calls, last_call,
              executed, last_executed, loop_pc>>

parserVars == <<response_text, parsed>>

facadeVars == <<page, ba_step_count, ba_action_history, screenshots, ba_result,
                facade_call, facade_calls>>

replayVars == <<session_events, user_content, yielded, invocations>>

msgVars == <<max_retries, retry_count, sm_pc, attempts, delays, attempt_error,
             sm_result, _context_ids, completed_ids, talk, talks>>

startupVars == <<st_client, st_pc, startup_lock, lock_waiters, cl_server_process,
                 cl_launched, popen_count>>

vars == <<schedVars, clientVars, valVars, loopVars, parserVars, facadeVars, replayVars, startupVars, msgVars>>

\* ================================================================ scheduler

Levels == {"easy", "hard"}

\* Texts of exceptions a task may raise (str(e)).
ExceptionTexts == {"boom", "closed"}

\* Return values (success, step_count, error_message) of _run_task_loop.
LoopOutcomes ==
    { <<TRUE, 1, None>>, <<FALSE, 2, None>>,
      <<FALSE, 1, "parse errors">>, <<TRUE, 2, "action failed">> }

\* The request's task list: task i has task_id i and alternating levels.
TasksConfig(n) ==
    [i \in 1..n |-> [task_id |-> i, level |-> IF i % 2 = 1 THEN "easy" ELSE "hard"]]

HasLevel(t, lvl) == t.level = lvl

\* run_eval, level filter: only when self._level is set.
FilterLevel(tasks, lvl) ==
    IF lvl # None THEN SelectSeq(tasks, LAMBDA t : HasLevel(t, lvl)) ELSE tasks

\* run_eval, limit filter: merged_tasks[: self._limit] when the limit is truthy.
FilterLimit(tasks, lim) ==
    IF lim > 0 THEN SubSeq(tasks, 1, IF lim < Len(tasks) THEN lim ELSE Len(tasks))
    ELSE tasks

\* The scheduler's steps leave the other components alone.
SchedFrame == UNCHANGED <<clientVars, valVars, loopVars, parserVars, facadeVars, replayVars, startupVars, msgVars>>

TaskIdx == 1..Len(merged_tasks)

Inside == {"setup", "body", "cleanup"}
Finished == {"returned", "raised"}

Running == {i \in TaskIdx : pc[i] \in Inside}

SchedInit ==
    /\ _level \in Levels \cup {None}
    /\ _limit \in 0..(MaxTasks - 1)
    /\ MAX_PARALLEL_TASKS \in 0..MaxCeiling
    /\ \E n \in 0..MaxTasks :
          merged_tasks = FilterLimit(FilterLevel(TasksConfig(n), _level), _limit)
    /\ semaphore = MAX_PARALLEL_TASKS
    /\ pc = [i \in 1..Len(merged_tasks) |-> "pending"]
    /\ success = [i \in 1..Len(merged_tasks) |-> FALSE]
    /\ step_count = [i \in 1..Len(merged_tasks) |-> 0]
    /\ error_message = [i \in 1..Len(merged_tasks) |-> None]
    /\ exc = [i \in 1..Len(merged_tasks) |-> None]
    /\ run_pc = "gathering"
    /\ task_results = <<>>

\* async with semaphore, without the wait for a free permit.
AcquireNoWait(i) ==
    /\ run_pc = "gathering"
    /\ pc[i] = "pending"
    /\ semaphore' = semaphore - 1
    /\ pc' = [pc EXCEPT ![i] = "setup"]
    /\ UNCHANGED <<_level, _limit, MAX_PARALLEL_TASKS, merged_tasks, success,
                   step_count, error_message, exc, run_pc, task_results>>
    /\ SchedFrame

\* run_with_semaphore: async with semaphore (enter).
Acquire(i) ==
    /\ run_pc = "gathering"
    /\ pc[i] = "pending"
    /\ semaphore > 0
    /\ semaphore' = semaphore - 1
    /\ pc' = [pc EXCEPT ![i] = "setup"]
    /\ UNCHANGED <<_level, _limit, MAX_PARALLEL_TASKS, merged_tasks, success,
                   step_count, error_message, exc, run_pc, task_results>>
    /\ SchedFrame

\* _run_single_task before the try block: config lookup, status update,
\* ToolProvider() and BrowserAgent() construction.
SetupOk(i) ==
    /\ pc[i] = "setup"
    /\ pc' = [pc EXCEPT ![i] = "body"]
    /\ UNCHANGED <<_level, _limit, MAX_PARALLEL_TASKS, merged_tasks, semaphore,
                   success, step_count, error_message, exc, run_pc, task_results>>
    /\ SchedFrame

\* An exception leaves _run_single_task: the frame is gone, __aexit__ of the
\* semaphore releases the permit and gather records the exception.
\* The mutant keeps the permit.
EscapeKeepsPermit(i, e) ==
    /\ pc' = [pc EXCEPT ![i] = "raised"]
    /\ exc' = [exc EXCEPT ![i] = e]
    /\ success' = [success EXCEPT ![i] = FALSE]
    /\ step_count' = [step_count EXCEPT ![i] = 0]
    /\ error_message' = [error_message EXCEPT ![i] = None]
    /\ UNCHANGED <<_level, _limit, MAX_PARALLEL_TASKS, merged_tasks, run_pc,
                   task_results, semaphore>>
    /\ SchedFrame

Escape(i, e) ==
    /\ pc' = [pc EXCEPT ![i] = "raised"]
    /\ exc' = [exc EXCEPT ![i] = e]
    /\ success' = [success EXCEPT ![i] = FALSE]
    /\ step_count' = [step_count EXCEPT ![i] = 0]
    /\ error_message' = [error_message EXCEPT ![i] = None]
    /\ semaphore' = semaphore + 1
    /\ UNCHANGED <<_level, _limit, MAX_PARALLEL_TASKS, merged_tasks, run_pc,
                   task_results>>
    /\ SchedFrame

SetupRaise(i) ==
    /\ pc[i] = "setup"
    /\ \E e \in ExceptionTexts : Escape(i, e)

\* try block, normal path: browser start, _run_task_loop returns, the session
\* is saved and the summary logged.
BodyReturn(i) ==
    /\ pc[i] = "body"
    /\ \E o \in LoopOutcomes :
          /\ success' = [success EXCEPT ![i] = o[1]]
          /\ step_count' = [step_count EXCEPT ![i] = o[2]]
          /\ error_message' = [error_message EXCEPT ![i] = o[3]]
    /\ pc' = [pc EXCEPT ![i] = "cleanup"]
    /\ UNCHANGED <<_level, _limit, MAX_PARALLEL_TASKS, merged_tasks, semaphore,
                   exc, run_pc, task_results>>
    /\ SchedFrame

\* try block, browser start or _run_task_loop raises: the except clause
\* stores str(e) and success = False; step_count keeps its initial 0.
BodyRaise(i) ==
    /\ pc[i] = "body"
    /\ \E e \in ExceptionTexts :
          /\ exc' = [exc EXCEPT ![i] = e]
          /\ error_message' = [error_message EXCEPT ![i] = e]
    /\ success' = [success EXCEPT ![i] = FALSE]
    /\ pc' = [pc EXCEPT ![i] = "cleanup"]
    /\ UNCHANGED <<_level, _limit, MAX_PARALLEL_TASKS, merged_tasks, semaphore,
                   step_count, run_pc, task_results>>
    /\ SchedFrame

\* try block, the loop returned but save_session or the summary raises: the
\* loop's step_count stays, success and error_message are overwritten.
SaveRaise(i) ==
    /\ pc[i] = "body"
    /\ \E o \in LoopOutcomes, e \in ExceptionTexts :
          /\ step_count' = [step_count EXCEPT ![i] = o[2]]
          /\ exc' = [exc EXCEPT ![i] = e]
          /\ error_message' = [error_message EXCEPT ![i] = e]
    /\ success' = [success EXCEPT ![i] = FALSE]
    /\ pc' = [pc EXCEPT ![i] = "cleanup"]
    /\ UNCHANGED <<_level, _limit, MAX_PARALLEL_TASKS, merged_tasks, semaphore,
                   run_pc, task_results>>
    /\ SchedFrame

\* finally: browser_agent.stop() succeeds, the TaskResult is returned and the
\* permit released.
StopOk(i) ==
    /\ pc[i] = "cleanup"
    /\ pc' = [pc EXCEPT ![i] = "returned"]
    /\ semaphore' = semaphore + 1
    /\ UNCHANGED <<_level, _limit, MAX_PARALLEL_TASKS, merged_tasks, success,
                   step_count, error_message, exc, run_pc, task_results>>
    /\ SchedFrame

\* finally: browser_agent.stop() raises, which leaves _run_single_task.
StopRaise(i) ==
    /\ pc[i] = "cleanup"
    /\ \E e \in ExceptionTexts : Escape(i, e)

\* What gather(return_exceptions=True) holds for task i.
GatherResult(i) ==
    IF pc[i] = "raised"
    THEN [kind |-> "exception", text |-> exc[i]]
    ELSE [kind |-> "TaskResult",
          value |-> [task_id |-> merged_tasks[i].task_id,
                     level |-> merged_tasks[i].level,
                     success |-> success[i],
                     step_count |-> step_count[i],
                     error_message |-> error_message[i]]]

\* The error TaskResult run_eval builds for an exception.
ErrorResult(i, r) ==
    [task_id |-> merged_tasks[i].task_id,
     level |-> merged_tasks[i].level,
     success |-> FALSE,
     step_count |-> 0,
     error_message |-> r.text]

\* run_eval's result loop with the exception branch left out.
RECURSIVE ProcessResultsDropExc(_)
ProcessResultsDropExc(n) ==
    IF n = 0 THEN <<>>
    ELSE LET r == GatherResult(n)
         IN  IF r.kind = "exception" THEN ProcessResultsDropExc(n - 1)
             ELSE Append(ProcessResultsDropExc(n - 1), r.value)

\* run_eval's result loop with the error text of an exception lost.
RECURSIVE ProcessResultsNoText(_)
ProcessResultsNoText(n) ==
    IF n = 0 THEN <<>>
    ELSE LET r == GatherResult(n)
         IN  IF r.kind = "exception"
             THEN Append(ProcessResultsNoText(n - 1),
                         [ErrorResult(n, r) EXCEPT !.error_message = None])
             ELSE Append(ProcessResultsNoText(n - 1), r.value)

\* run_eval's loop over the first n gathered results, in order.
RECURSIVE ProcessResults(_)
ProcessResults(n) ==
    IF n = 0 THEN <<>>
    ELSE LET r == GatherResult(n)
         IN  IF r.kind = "exception"
             THEN Append(ProcessResults(n - 1), ErrorResult(n, r))
             ELSE Append(ProcessResults(n - 1), r.value)

\* asyncio.gather returns once every task has finished; run_eval then builds
\* task_results and the aggregate report.
Gather ==
    /\ run_pc = "gathering"
    /\ \A i \in TaskIdx : pc[i] \in Finished
    /\ task_results' = ProcessResults(Len(merged_tasks))
    /\ run_pc' = "reported"
    /\ UNCHANGED <<_level, _limit, MAX_PARALLEL_TASKS, merged_tasks, semaphore, pc,
                   success, step_count, error_message, exc>>
    /\ SchedFrame

\* ========================================================== protocol client

\* Tool schemas a server may announce in its tools/list answer.
NavTool ==
    [name |-> "browser_navigate", required |-> <<"url">>,
     properties |-> [url |-> "string"]]

ClickTool ==
    [name |-> "browser_click", required |-> <<"ref">>,
     properties |-> [ref |-> "string", element |-> "string"]]

ToolLists == { <<NavTool>>, <<NavTool, ClickTool>> }

\* Tool names and keyword arguments call_tool is tried with; a value is
\* represented by the name of its Python type.
CallNames == {"browser_navigate", "browser_click"}
CallArgs == { <<>>, [url |-> "str"], [url |-> "int"], [ref |-> "str"] }

\* _tools_cache is None, or a list of tools.
CacheNone == [is_none |-> TRUE, tools |-> <<>>]
Cached(tools) == [is_none |-> FALSE, tools |-> tools]

\* {tool["name"]: tool for tool in tools}: a later entry wins.
IndexByName(tools) ==
    [n \in {tools[i].name : i \in 1..Len(tools)} |->
        LET k == CHOOSE i \in 1..Len(tools) :
                    /\ tools[i].name = n
                    /\ \A j \in 1..Len(tools) : tools[j].name = n => j <= i
        IN  tools[k]]

\* isinstance(arg_value, type_map[expected_type]); bool is a subclass of int.
IsInstance(value, expected_type) ==
    CASE expected_type = "string"  -> value = "str"
      [] expected_type = "number"  -> value \in {"int", "float", "bool"}
      [] expected_type = "integer" -> value \in {"int", "bool"}
      [] expected_type = "boolean" -> value = "bool"
      [] expected_type = "array"   -> value = "list"
      [] expected_type = "object"  -> value = "dict"
      [] OTHER -> TRUE

SchemaTypes == {"string", "number", "integer", "boolean", "array", "object"}

\* The type check of one supplied argument: skipped when the schema gives no
\* type ("") or a type the type_map does not know.
TypeMismatch(expected_type, value) ==
    /\ expected_type # ""
    /\ expected_type \in SchemaTypes
    /\ ~IsInstance(value, expected_type)

\* _validate_arguments (with get_tool_schema): (is_valid, class of the error).
ValidateArguments(by_name, tool_name, arguments) ==
    IF tool_name \notin DOMAIN by_name
    THEN <<FALSE, "not found in cache">>
    ELSE LET required_fields == by_name[tool_name].required
             properties == by_name[tool_name].properties
         IN  IF \E k \in 1..Len(required_fields) :
                     required_fields[k] \notin DOMAIN arguments
             THEN <<FALSE, "Missing required field">>
             ELSE IF \E a \in DOMAIN arguments :
                         /\ a \in DOMAIN properties
                         /\ TypeMismatch(properties[a], arguments[a])
                  THEN <<FALSE, "Type mismatch">>
                  ELSE <<TRUE, None>>

\* How the last completed call ended.
Ended(op, raised, why, req, resp, value) ==
    [op |-> op, raised |-> raised, why |-> why, req |-> req, resp |-> resp,
     value |-> value]

Returned(op, req, resp, value) == Ended(op, FALSE, None, req, resp, value)
Raised(op, why, req) == Ended(op, TRUE, why, req, 0, <<>>)

\* The client's steps leave the other components alone.
ClientFrame == UNCHANGED <<schedVars, valVars, loopVars, parserVars, facadeVars, replayVars, startupVars, msgVars>>

\* stop(): "for _ in range(10)".
POLL_LIMIT == 10

\* stop() never ran against a server.
NoStop ==
    [proc |-> 0, terminate |-> FALSE, polls |-> 0, sleeps |-> 0, exit_at |-> 0,
     kill |-> FALSE, error |-> FALSE]

ClientInit ==
    /\ server_process = 0
    /\ _message_id = 0
    /\ _initialized = FALSE
    /\ _server_info = None
    /\ _tools_cache = CacheNone
    /\ _tools_by_name = <<>>
    /\ _user_data_dir = None
    /\ launched = 0
    /\ sent = <<>>
    /\ outstanding = {}
    /\ holder = 0
    /\ waiting = {}
    /\ op_pc = "idle"
    /\ op_id = 0
    /\ last = Returned("__init__", 0, 0, <<>>)
    /\ lifecycle = "new"
    /\ running = {}
    /\ dirs = {}
    /\ stop_log = NoStop

Request(id, method) == [id |-> id, method |-> method, proc |-> server_process]

\* json.dumps(request) written to stdin, then _read_response starts a reader
\* thread (asyncio.to_thread(stdout.readline)) that queues on the buffer lock.
Send(id, method) ==
    /\ sent' = Append(sent, Request(id, method))
    /\ outstanding' = outstanding \cup {[id |-> id, method |-> method]}
    /\ IF holder = 0
       THEN holder' = id /\ waiting' = waiting
       ELSE holder' = holder /\ waiting' = waiting \cup {id}

\* The answers a server can give to a request: a JSON-RPC result (with a tool
\* list when it answers tools/list), a JSON-RPC error, an empty line or a line
\* that is not JSON.
Answers(req) ==
    {[id |-> req.id, kind |-> k, has_tools |-> FALSE, tools |-> <<>>] :
        k \in {"error", "empty", "malformed"}}
    \cup (IF req.method = "tools/list"
          THEN {[id |-> req.id, kind |-> "result", has_tools |-> TRUE, tools |-> t] :
                    t \in ToolLists}
          ELSE {[id |-> req.id, kind |-> "result", has_tools |-> FALSE, tools |-> <<>>]})

\* The server answers one of its outstanding requests; the line goes to the
\* thread inside readline, and one of the queued threads takes its place.
Consume(req) ==
    /\ req \in outstanding
    /\ holder # 0
    /\ outstanding' = outstanding \ {req}
    /\ \E nh \in (IF waiting = {} THEN {0} ELSE waiting) :
          /\ holder' = nh
          /\ waiting' = waiting \ {nh}

\* The thread inside readline belongs to the call in progress.
LiveRead == op_pc # "idle" /\ holder = op_id

\* result.get("tools", []) of a tools/list answer.
ExtractTools(resp) == IF resp.has_tools THEN resp.tools ELSE <<>>

\* Why _read_response or the caller raises on a response, None if it does not.
ResponseError(resp) ==
    CASE resp.kind = "empty" -> "empty response"
      [] resp.kind = "malformed" -> "invalid JSON"
      [] resp.kind = "error" -> "error response"
      [] OTHER -> None

\* list_tools that never answers from the cache.
CacheHitNever(force_refresh) == FALSE

\* list_tools: "self._tools_cache is not None and not force_refresh".
CacheHit(force_refresh) == ~_tools_cache.is_none /\ ~force_refresh

\* The except clause of _start_server_internal: the working directory is
\* removed and the process handle dropped; the pipes of the abandoned process
\* are out of the client's reach.
StartFailed(why, req) ==
    /\ _user_data_dir' = None
    /\ server_process' = 0
    /\ outstanding' = {}
    /\ holder' = 0
    /\ waiting' = {}
    /\ op_pc' = "idle"
    /\ op_id' = 0
    /\ last' = Raised("start", why, req)
    /\ lifecycle' = "failed"
    /\ dirs' = dirs \ {server_process}
    /\ UNCHANGED <<running, stop_log>>

\* start() on a client whose server is running: a warning, nothing else.
StartAlreadyRunning ==
    /\ op_pc = "idle"
    /\ server_process # 0
    /\ last' = Returned("start", 0, 0, <<>>)
    /\ UNCHANGED <<server_process, _message_id, _initialized, _server_info,
                   _tools_cache, _tools_by_name, _user_data_dir, launched, sent,
                   outstanding, holder, waiting, op_pc, op_id, lifecycle>>
    /\ UNCHANGED <<running, dirs, stop_log>>
    /\ ClientFrame

\* start(): mkdtemp succeeded, subprocess.Popen raises.
StartLaunchFails ==
    /\ op_pc = "idle"
    /\ server_process = 0
    /\ StartFailed("launch failed", 0)
    /\ UNCHANGED <<_message_id, _initialized, _server_info, _tools_cache,
                   _tools_by_name, launched, sent>>
    /\ ClientFrame

\* What a server that exits at once has written to its stderr.
Stderrs == {"Server error", "npx: command not found"}

\* The error of an early exit without the captured stderr.
ExitedErrorBare(stderr) == "MCP server startup failed: MCP server failed to start: "

\* "raise RuntimeError(f"MCP server failed to start: {stderr}")", wrapped by the
\* except clause into "MCP server startup failed: {e}".
ExitedError(stderr) ==
    "MCP server startup failed: MCP server failed to start: " \o stderr

\* start(): the subprocess has exited at the poll after the grace sleep; its
\* stderr is read, _initialize is not reached.
StartExitedEarly ==
    /\ op_pc = "idle"
    /\ server_process = 0
    /\ launched < MaxStarts
    /\ launched' = launched + 1
    /\ \E stderr \in Stderrs : StartFailed(ExitedError(stderr), 0)
    /\ UNCHANGED <<_message_id, _initialized, _server_info, _tools_cache,
                   _tools_by_name, sent>>
    /\ ClientFrame

\* start(): the subprocess runs; _initialize sends the initialize request and
\* awaits its response.
StartBegin ==
    /\ op_pc = "idle"
    /\ server_process = 0
    /\ launched < MaxStarts
    /\ _message_id < MaxMsgId
    /\ launched' = launched + 1
    /\ server_process' = launched + 1
    /\ _user_data_dir' = "dir"
    /\ _message_id' = _message_id + 1
    /\ sent' = Append(sent, [id |-> _message_id + 1, method |-> "initialize",
                             proc |-> launched + 1])
    /\ outstanding' = {[id |-> _message_id + 1, method |-> "initialize"]}
    /\ holder' = _message_id + 1
    /\ waiting' = {}
    /\ op_pc' = "start_init"
    /\ op_id' = _message_id + 1
    /\ running' = running \cup {launched + 1}
    /\ dirs' = dirs \cup {launched + 1}
    /\ UNCHANGED stop_log
    /\ UNCHANGED <<_initialized, _server_info, _tools_cache, _tools_by_name, last,
                   lifecycle>>
    /\ ClientFrame

\* _initialize after the initialize response: on a result the server info is
\* stored, the initialized notification sent, _initialized set and list_tools()
\* called, which returns the cache or sends tools/list.
StartInitResponse ==
    /\ op_pc = "start_init"
    /\ LiveRead
    /\ \E req \in outstanding : \E resp \in Answers(req) :
          IF ResponseError(resp) # None
          THEN /\ StartFailed(ResponseError(resp), op_id)
               /\ UNCHANGED <<_message_id, _initialized, _server_info, _tools_cache,
                              _tools_by_name, launched, sent>>
          ELSE /\ _server_info' = "info"
               /\ _initialized' = TRUE
               /\ IF CacheHit(FALSE)
                  THEN /\ Consume(req)
                       /\ op_pc' = "idle"
                       /\ op_id' = 0
                       /\ last' = Returned("start", op_id, resp.id, <<>>)
                       /\ lifecycle' = "ready"
                       /\ UNCHANGED <<_message_id, sent>>
                  ELSE /\ _message_id < MaxMsgId
                       /\ _message_id' = _message_id + 1
                       /\ sent' = Append(sent, Request(_message_id + 1, "tools/list"))
                       /\ outstanding' = (outstanding \ {req})
                                            \cup {[id |-> _message_id + 1,
                                                   method |-> "tools/list"]}
                       /\ holder' = _message_id + 1
                       /\ waiting' = {}
                       /\ op_pc' = "start_list"
                       /\ op_id' = _message_id + 1
                       /\ UNCHANGED <<last, lifecycle>>
               /\ UNCHANGED <<server_process, _tools_cache, _tools_by_name,
                              _user_data_dir, launched, running, dirs, stop_log>>
    /\ ClientFrame

\* list_tools() inside _initialize after the tools/list response.
StartListResponse ==
    /\ op_pc = "start_list"
    /\ LiveRead
    /\ \E req \in outstanding : \E resp \in Answers(req) :
          IF ResponseError(resp) # None
          THEN /\ StartFailed(ResponseError(resp), op_id)
               /\ UNCHANGED <<_message_id, _initialized, _server_info, _tools_cache,
                              _tools_by_name, launched, sent>>
          ELSE /\ Consume(req)
               /\ _tools_cache' = Cached(ExtractTools(resp))
               /\ _tools_by_name' = IndexByName(ExtractTools(resp))
               /\ op_pc' = "idle"
               /\ op_id' = 0
               /\ last' = Returned("start", op_id, resp.id, <<>>)
               /\ lifecycle' = "ready"
               /\ UNCHANGED <<server_process, _message_id, _initialized, _server_info,
                              _user_data_dir, launched, sent, running, dirs,
                              stop_log>>
    /\ ClientFrame

\* asyncio.wait_for expires in _read_response during start().
StartTimeout ==
    /\ op_pc \in {"start_init", "start_list"}
    /\ StartFailed("timeout", op_id)
    /\ UNCHANGED <<_message_id, _initialized, _server_info, _tools_cache,
                   _tools_by_name, launched, sent>>
    /\ ClientFrame

\* stop() with no server: a warning, nothing else.
StopNoServer ==
    /\ op_pc = "idle"
    /\ server_process = 0
    /\ last' = Returned("stop", 0, 0, <<>>)
    /\ UNCHANGED <<server_process, _message_id, _initialized, _server_info,
                   _tools_cache, _tools_by_name, _user_data_dir, launched, sent,
                   outstanding, holder, waiting, op_pc, op_id, lifecycle>>
    /\ UNCHANGED <<running, dirs, stop_log>>
    /\ ClientFrame

\* The process under stop() has exited once exit_at sleeps of the polling loop
\* have gone by; POLL_LIMIT + 1 stands for a process that outlives every poll.
ExitTimes == {0, 1, POLL_LIMIT - 1, POLL_LIMIT, POLL_LIMIT + 1}

\* The polling loop of stop(): poll, break when the process has exited,
\* otherwise sleep; at most POLL_LIMIT rounds.
LoopPolls(exit_at) == IF exit_at < POLL_LIMIT THEN exit_at + 1 ELSE POLL_LIMIT
LoopSleeps(exit_at) == IF exit_at < POLL_LIMIT THEN exit_at ELSE POLL_LIMIT

\* stop(): "if self.server_process.poll() is None: kill(); wait()".
ForceKill(exit_at) == exit_at > POLL_LIMIT

\* The try block of stop() against a process that exits exit_at sleeps after
\* terminate(); raises names the call that raises, "None" for no exception.
StopPath(proc, exit_at, raises) ==
    IF raises = "terminate"
    THEN [proc |-> proc, terminate |-> TRUE, polls |-> 0, sleeps |-> 0,
          exit_at |-> exit_at, kill |-> FALSE, error |-> TRUE]
    ELSE [proc |-> proc, terminate |-> TRUE, polls |-> LoopPolls(exit_at),
          sleeps |-> LoopSleeps(exit_at), exit_at |-> exit_at,
          kill |-> ForceKill(exit_at),
          error |-> (raises = "kill" /\ ForceKill(exit_at))]

\* stop() whose finally clause is skipped when the try block raises.
StopFinallyUnlessError ==
    IF stop_log'.error
    THEN UNCHANGED <<server_process, _initialized, _user_data_dir, dirs>>
    ELSE /\ server_process' = 0
         /\ _initialized' = FALSE
         /\ _user_data_dir' = None
         /\ dirs' = dirs \ {server_process}

\* The finally clause of stop(): the handle and the ready flag are cleared and
\* _cleanup_user_data_dir removes the working directory.
StopFinally ==
    /\ server_process' = 0
    /\ _initialized' = FALSE
    /\ _user_data_dir' = None
    /\ dirs' = dirs \ {server_process}

\* stop() that forgets the message id counter as well.
StopResetsId ==
    /\ op_pc = "idle"
    /\ server_process # 0
    /\ \E exit_at \in ExitTimes, raises \in {None, "terminate", "kill"} :
          /\ stop_log' = StopPath(server_process, exit_at, raises)
          /\ running' = IF stop_log'.error /\ exit_at > 0
                        THEN running
                        ELSE running \ {server_process}
    /\ StopFinally
    /\ _message_id' = 0
    /\ outstanding' = {}
    /\ holder' = 0
    /\ waiting' = {}
    /\ last' = Returned("stop", 0, 0, <<>>)
    /\ lifecycle' = "stopped"
    /\ UNCHANGED <<_server_info, _tools_cache, _tools_by_name, launched,
                   sent, op_pc, op_id>>
    /\ ClientFrame

\* stop(): terminate(), the polling loop, kill() and wait() when the process
\* is still alive after it; an exception of the try block is logged; the
\* finally clause runs on every path.  A process whose terminate() or kill()
\* raised is still running unless it had exited before.
Stop ==
    /\ op_pc = "idle"
    /\ server_process # 0
    /\ \E exit_at \in ExitTimes, raises \in {None, "terminate", "kill"} :
          /\ stop_log' = StopPath(server_process, exit_at, raises)
          /\ running' = IF stop_log'.error /\ exit_at > 0
                        THEN running
                        ELSE running \ {server_process}
    /\ StopFinally
    /\ outstanding' = {}
    /\ holder' = 0
    /\ waiting' = {}
    /\ last' = Returned("stop", 0, 0, <<>>)
    /\ lifecycle' = "stopped"
    /\ UNCHANGED <<_message_id, _server_info, _tools_cache, _tools_by_name, launched,
                   sent, op_pc, op_id>>
    /\ ClientFrame

\* list_tools(force_refresh): the cached list, or an error without a server, or
\* a tools/list request whose response is awaited.
ListTools(force_refresh) ==
    /\ op_pc = "idle"
    /\ IF CacheHit(force_refresh)
       THEN /\ last' = Returned("list_tools", 0, 0, _tools_cache.tools)
            /\ UNCHANGED <<_message_id, sent, outstanding, holder, waiting, op_pc,
                           op_id>>
       ELSE IF server_process = 0
       THEN /\ last' = Raised("list_tools", "not running", 0)
            /\ UNCHANGED <<_message_id, sent, outstanding, holder, waiting, op_pc,
                           op_id>>
       ELSE /\ _message_id < MaxMsgId
            /\ _message_id' = _message_id + 1
            /\ Send(_message_id + 1, "tools/list")
            /\ op_pc' = "list"
            /\ op_id' = _message_id + 1
            /\ UNCHANGED last
    /\ UNCHANGED <<server_process, _initialized, _server_info, _tools_cache,
                   _tools_by_name, _user_data_dir, launched, lifecycle>>
    /\ UNCHANGED <<running, dirs, stop_log>>
    /\ ClientFrame

\* list_tools: the cache and the by-name index are replaced together.
StoreTools(tools) ==
    /\ _tools_cache' = Cached(tools)
    /\ _tools_by_name' = IndexByName(tools)

\* list_tools after its reader thread got a line.
ListResponse ==
    /\ op_pc = "list"
    /\ LiveRead
    /\ \E req \in outstanding : \E resp \in Answers(req) :
          /\ Consume(req)
          /\ IF ResponseError(resp) # None
             THEN /\ last' = Raised("list_tools", ResponseError(resp), op_id)
                  /\ UNCHANGED <<_tools_cache, _tools_by_name>>
             ELSE /\ StoreTools(ExtractTools(resp))
                  /\ last' = Returned("list_tools", op_id, resp.id, ExtractTools(resp))
    /\ op_pc' = "idle"
    /\ op_id' = 0
    /\ UNCHANGED <<server_process, _message_id, _initialized, _server_info,
                   _user_data_dir, launched, sent, lifecycle>>
    /\ UNCHANGED <<running, dirs, stop_log>>
    /\ ClientFrame

\* call_tool without the readiness checks.
CallToolOutcomeNoReadiness(tool_name, arguments) ==
    IF ~ValidateArguments(_tools_by_name, tool_name, arguments)[1] THEN "validation"
    ELSE "send"

\* call_tool without the validation step.
CallToolOutcomeNoValidation(tool_name, arguments) ==
    IF ~_initialized THEN "not initialized"
    ELSE IF server_process = 0 THEN "not running"
    ELSE "send"

\* The checks of call_tool and _call_tool, in order, before anything is sent.
CallToolOutcome(tool_name, arguments) ==
    IF ~_initialized THEN "not initialized"
    ELSE IF ~ValidateArguments(_tools_by_name, tool_name, arguments)[1] THEN "validation"
    ELSE IF server_process = 0 THEN "not running"
    ELSE "send"

\* call_tool(tool_name, **kwargs) up to the await of the response.
CallTool(tool_name, arguments) ==
    /\ op_pc = "idle"
    /\ IF CallToolOutcome(tool_name, arguments) # "send"
       THEN /\ last' = Raised("call_tool", CallToolOutcome(tool_name, arguments), 0)
            /\ UNCHANGED <<_message_id, sent, outstanding, holder, waiting, op_pc,
                           op_id>>
       ELSE /\ _message_id < MaxMsgId
            /\ _message_id' = _message_id + 1
            /\ Send(_message_id + 1, "tools/call")
            /\ op_pc' = "call"
            /\ op_id' = _message_id + 1
            /\ UNCHANGED last
    /\ UNCHANGED <<server_process, _initialized, _server_info, _tools_cache,
                   _tools_by_name, _user_data_dir, launched, lifecycle>>
    /\ UNCHANGED <<running, dirs, stop_log>>
    /\ ClientFrame

\* _call_tool after its reader thread got a line: the result of that line is
\* returned, whatever its id.
CallResponse ==
    /\ op_pc = "call"
    /\ LiveRead
    /\ \E req \in outstanding : \E resp \in Answers(req) :
          /\ Consume(req)
          /\ IF ResponseError(resp) # None
             THEN last' = Raised("call_tool", ResponseError(resp), op_id)
             ELSE last' = Returned("call_tool", op_id, resp.id, <<>>)
    /\ op_pc' = "idle"
    /\ op_id' = 0
    /\ UNCHANGED <<server_process, _message_id, _initialized, _server_info,
                   _tools_cache, _tools_by_name, _user_data_dir, launched, sent,
                   lifecycle>>
    /\ UNCHANGED <<running, dirs, stop_log>>
    /\ ClientFrame

\* asyncio.wait_for expires in _read_response of list_tools or _call_tool: the
\* call raises, its reader thread stays blocked in readline.
ReadTimeout ==
    /\ op_pc \in {"list", "call"}
    /\ last' = Raised(IF op_pc = "list" THEN "list_tools" ELSE "call_tool",
                      "timeout", op_id)
    /\ op_pc' = "idle"
    /\ op_id' = 0
    /\ UNCHANGED <<server_process, _message_id, _initialized, _server_info,
                   _tools_cache, _tools_by_name, _user_data_dir, launched, sent,
                   outstanding, holder, waiting, lifecycle>>
    /\ UNCHANGED <<running, dirs, stop_log>>
    /\ ClientFrame

\* A line is read by the thread of a call that has timed out: it is dropped.
OrphanRead ==
    /\ holder # 0
    /\ ~LiveRead
    /\ \E req \in outstanding : Consume(req)
    /\ UNCHANGED <<server_process, _message_id, _initialized, _server_info,
                   _tools_cache, _tools_by_name, _user_data_dir, launched, sent,
                   op_pc, op_id, last, lifecycle>>
    /\ UNCHANGED <<running, dirs, stop_log>>
    /\ ClientFrame

ClientNext ==
    \/ StartAlreadyRunning
    \/ StartLaunchFails
    \/ StartExitedEarly
    \/ StartBegin
    \/ StartInitResponse
    \/ StartListResponse
    \/ StartTimeout
    \/ StopNoServer
    \/ Stop
    \/ \E force_refresh \in BOOLEAN : ListTools(force_refresh)
    \/ ListResponse
    \/ \E tool_name \in CallNames, arguments \in CallArgs : CallTool(tool_name, arguments)
    \/ CallResponse
    \/ ReadTimeout
    \/ OrphanRead

\* ====================================================== argument validation

Fields == {"a", "b"}

\* Declared types: the six primitive types, one the type_map does not know and
\* "" for a property without a type.
DeclaredTypes == SchemaTypes \cup {"null", ""}

PyTypes == {"str", "int", "float", "bool", "list", "dict", "NoneType"}

RequiredChoices == { <<>>, <<"a">>, <<"b">>, <<"a", "b">> }

Maps(keys, values) == UNION {[d -> values] : d \in SUBSET keys}

ValFrame == UNCHANGED <<schedVars, clientVars, loopVars, parserVars, facadeVars, replayVars, startupVars, msgVars>>

ValInit ==
    /\ \E required \in RequiredChoices, properties \in Maps(Fields, DeclaredTypes) :
          val_by_name = [n \in {"tool"} |->
                            [name |-> "tool", required |-> required,
                             properties |-> properties]]
    /\ val_tool_name \in {"tool", "other"}
    /\ val_args \in Maps(Fields, PyTypes)
    /\ val_result = <<FALSE, "pending">>

\* One application of _validate_arguments.
Validate ==
    /\ val_result = <<FALSE, "pending">>
    /\ val_result' = ValidateArguments(val_by_name, val_tool_name, val_args)
    /\ UNCHANGED <<val_by_name, val_tool_name, val_args>>
    /\ ValFrame

ValNext == Validate

\* ============================================================ task loop

\* last_call and last_executed before the first call.
NoCall ==
    [step |-> 0, new_conversation |-> FALSE, prompt |-> None, outcome |-> None,
     raised |-> {}, parsed_tool |-> None]

NoExecution == [step |-> 0, tool |-> None]

\* Threshold of the parse-error give-up.
MAX_CONSECUTIVE_PARSE_ERRORS == 3

RECURSIVE Pow(_, _)
Pow(b, n) == IF n = 0 THEN 1 ELSE b * Pow(b, n - 1)

\* current_delay is a float; the model counts it in units of 1/DelayUnit
\* second.  A run shrinks the delay (factor 0.8 = 4/5) at most once per step, so
\* with DelayUnit = 5^MaxSteps every product below is an exact integer and the
\* model orders delays exactly as the rationals do.
DelayUnit == Pow(5, MaxSteps)

Min(a, b) == IF a <= b THEN a ELSE b
Max(a, b) == IF a >= b THEN a ELSE b

Digit == <<"1", "2", "3", "4", "5", "6", "7", "8", "9">>

\* What an agent reply parses to: the value under "tool" of the parsed action
\* ("missing": the action has no "tool" key).
AgentActions == {"missing", "finish", "error", "browser_click", "browser_close"}

\* tool = action.get("tool", "finish")
ToolOf(action) == IF action = "missing" THEN "finish" ELSE action

\* The tools execute_action is called with.
RealTools == {t \in AgentActions : ToolOf(t) \notin {"finish", "error"}}

\* Close-style tools, which the facade intercepts.
CloseTools == {"browser_close"}

\* An exception raised by talk_to_agent, by what the handler looks at.
\* The lower-cased text of an exception, as the set of the phrases it
\* contains out of those an error classification looks for.
ErrorTexts ==
    {{}, {"429"}, {"resource_exhausted"}, {"too many requests"}, {"quota"},
     {"rate", "limit"}, {"rate"}, {"timeout"}, {"timeout", "429"}}

AgentErrors == [text : ErrorTexts, is_TimeoutError : BOOLEAN]

\* is_rate_limit: "429", "resource_exhausted" or "too many requests" in the text
IsRateLimit(e) ==
    \/ "429" \in e.text
    \/ "resource_exhausted" \in e.text
    \/ "too many requests" \in e.text

\* is_timeout: "timeout" in the text or isinstance(e, TimeoutError)
IsTimeout(e) == "timeout" \in e.text \/ e.is_TimeoutError

\* Success branch: the delay after the consecutive_successes-th success in a row.
\* The mutant shrinks below the floor.
DelayAfterSuccessNoFloor(successes, delay, floor) ==
    IF successes >= 3 /\ delay > floor
    THEN (delay * 4) \div 5
    ELSE delay

DelayAfterSuccess(successes, delay, floor) ==
    IF successes >= 3 /\ delay > floor
    THEN Max(floor, (delay * 4) \div 5)
    ELSE delay

\* The delay after a rate-limit error: doubled, capped.  C18's mutant drops the
\* cap, C19's adds one second instead of doubling.
DelayAfterRateLimitUncapped(delay, cap) == delay * 2

DelayAfterRateLimitAdditive(delay, cap) == Min(cap, delay + 1)

DelayAfterRateLimit(delay, cap) == Min(cap, delay * 2)

\* The text part of the message sent at the step with index s.
Prompt(s, feedback) ==
    IF s = 0 THEN "initial"
    ELSE IF feedback # None THEN feedback
    ELSE "reminder"

\* error_feedback after the prompt is built: a later step consumes it.
FeedbackAfterPrompt(s, feedback) == IF s > 0 THEN None ELSE feedback

LoopFrame == UNCHANGED <<schedVars, clientVars, valVars, parserVars, facadeVars, replayVars, startupVars, msgVars>>

LoopInit ==
    /\ max_steps \in 0..MaxSteps
    /\ step_delay \in 0..MaxStepDelay
    /\ step = 0
    /\ lp_step_count = 0
    /\ lp_success = FALSE
    /\ thoughts = 0
    /\ lp_error_message = None
    /\ browser_closed = FALSE
    /\ error_feedback = None
    /\ consecutive_parse_errors = 0
    /\ current_delay = step_delay * DelayUnit
    /\ min_delay = step_delay * DelayUnit
    /\ max_delay = step_delay * DelayUnit * 8
    /\ consecutive_successes = 0
    /\ action_history = <<>>
    /\ agent_calls = 0
    /\ last_call = NoCall
    /\ executed = 0
    /\ last_executed = NoExecution
    /\ loop_pc = "loop"

\* An iteration of "for step in range(max_steps)" starts.
BeginStep ==
    /\ loop_pc = "loop"
    /\ step < max_steps
    /\ lp_step_count' = step + 1

\* The talk_to_agent call of the current iteration, with how the iteration
\* went on after it.
Call(outcome) ==
    [step |-> step + 1, new_conversation |-> (step = 0),
     prompt |-> Prompt(step, error_feedback), outcome |-> outcome, raised |-> {},
     parsed_tool |-> None]

\* talk_to_agent is called once more.
Called(outcome) ==
    /\ agent_calls' = agent_calls + 1
    /\ last_call' = Call(outcome)

\* talk_to_agent is called once more and raises the exception e.
CallRaised(outcome, e) ==
    /\ agent_calls' = agent_calls + 1
    /\ last_call' = [Call(outcome) EXCEPT !.raised = {e}]

\* break
Break == loop_pc' = "returned" /\ step' = step

\* the next iteration of the for loop (also what "continue" leads to)
NextStep == loop_pc' = "loop" /\ step' = step + 1

\* An exception leaves the loop before the agent is asked: update_status or
\* get_snapshot raises.
ObserveRaises ==
    /\ BeginStep
    /\ loop_pc' = "raised"
    /\ UNCHANGED <<max_steps, step_delay, step, lp_success, thoughts, lp_error_message,
                   browser_closed, error_feedback, consecutive_parse_errors,
                   current_delay, min_delay, max_delay, consecutive_successes,
                   action_history, agent_calls, last_call, executed,
                   last_executed>>
    /\ LoopFrame

\* asyncio.wait_for gives up after WHITE_AGENT_TIMEOUT seconds: break.
AgentTimeoutRetried ==
    /\ BeginStep
    /\ Called("timeout")
    /\ error_feedback' = FeedbackAfterPrompt(step, error_feedback)
    /\ lp_error_message' = "White agent response timed out after 300s"
    /\ NextStep
    /\ UNCHANGED <<max_steps, step_delay, lp_success, thoughts, browser_closed,
                   consecutive_parse_errors, current_delay, min_delay, max_delay,
                   consecutive_successes, action_history, executed, last_executed>>
    /\ LoopFrame

AgentTimeout ==
    /\ BeginStep
    /\ Called("timeout")
    /\ error_feedback' = FeedbackAfterPrompt(step, error_feedback)
    /\ lp_error_message' = "White agent response timed out after 300s"
    /\ Break
    /\ UNCHANGED <<max_steps, step_delay, lp_success, thoughts, browser_closed,
                   consecutive_parse_errors, current_delay, min_delay, max_delay,
                   consecutive_successes, action_history, executed, last_executed>>
    /\ LoopFrame

\* talk_to_agent raises an exception classified as a timeout: break.
AgentErrorTimeout(e) ==
    /\ BeginStep
    /\ IsTimeout(e)
    /\ CallRaised("error_timeout", e)
    /\ error_feedback' = FeedbackAfterPrompt(step, error_feedback)
    /\ lp_error_message' = "White agent timed out: <e>"
    /\ Break
    /\ UNCHANGED <<max_steps, step_delay, lp_success, thoughts, browser_closed,
                   consecutive_parse_errors, current_delay, min_delay, max_delay,
                   consecutive_successes, action_history, executed, last_executed>>
    /\ LoopFrame

\* talk_to_agent raises a rate-limit error: the delay grows, the loop sleeps and
\* "continue" moves on to the next value of range(max_steps).  The mutant
\* stays on the same step.
AgentRateLimitedSameStep(e) ==
    /\ BeginStep
    /\ ~IsTimeout(e) /\ IsRateLimit(e)
    /\ CallRaised("rate_limit", e)
    /\ error_feedback' = FeedbackAfterPrompt(step, error_feedback)
    /\ consecutive_successes' = 0
    /\ current_delay' = DelayAfterRateLimit(current_delay, max_delay)
    /\ loop_pc' = "loop" /\ step' = step
    /\ UNCHANGED <<max_steps, step_delay, lp_success, thoughts, lp_error_message,
                   browser_closed, consecutive_parse_errors, min_delay, max_delay,
                   action_history, executed, last_executed>>
    /\ LoopFrame

AgentRateLimited(e) ==
    /\ BeginStep
    /\ ~IsTimeout(e) /\ IsRateLimit(e)
    /\ CallRaised("rate_limit", e)
    /\ error_feedback' = FeedbackAfterPrompt(step, error_feedback)
    /\ consecutive_successes' = 0
    /\ current_delay' = DelayAfterRateLimit(current_delay, max_delay)
    /\ NextStep
    /\ UNCHANGED <<max_steps, step_delay, lp_success, thoughts, lp_error_message,
                   browser_closed, consecutive_parse_errors, min_delay, max_delay,
                   action_history, executed, last_executed>>
    /\ LoopFrame

\* talk_to_agent raises any other exception: break.
AgentErrorOther(e) ==
    /\ BeginStep
    /\ ~IsTimeout(e) /\ ~IsRateLimit(e)
    /\ CallRaised("error", e)
    /\ error_feedback' = FeedbackAfterPrompt(step, error_feedback)
    /\ lp_error_message' = "Failed to communicate with white agent: <e>"
    /\ Break
    /\ UNCHANGED <<max_steps, step_delay, lp_success, thoughts, browser_closed,
                   consecutive_parse_errors, current_delay, min_delay, max_delay,
                   consecutive_successes, action_history, executed, last_executed>>
    /\ LoopFrame

\* talk_to_agent returned a reply: the success branch of the backoff, and the
\* thought appended once the reply has been parsed.
\* parsed_tool is the "tool" entry of a parsed reply that ended the task as
\* finished ("missing": the parsed reply has none).
RepliedWith(outcome, parsed_tool) ==
    /\ BeginStep
    /\ agent_calls' = agent_calls + 1
    /\ last_call' = [Call(outcome) EXCEPT !.parsed_tool = parsed_tool]
    /\ consecutive_successes' = consecutive_successes + 1
    /\ current_delay' =
          DelayAfterSuccess(consecutive_successes + 1, current_delay, min_delay)
    /\ UNCHANGED <<max_steps, step_delay, min_delay, max_delay>>
    /\ LoopFrame

Replied(outcome) == RepliedWith(outcome, None)

\* parse_white_agent_response, or reading the parsed action, raises: break.
ReplyParseRaises ==
    /\ Replied("parse_raise")
    /\ error_feedback' = FeedbackAfterPrompt(step, error_feedback)
    /\ lp_error_message' = "Failed to parse white agent response: <e>"
    /\ Break
    /\ UNCHANGED <<lp_success, thoughts, browser_closed, consecutive_parse_errors,
                   action_history, executed, last_executed>>

\* The reply parses to tool "finish" (or to an action without a tool): success.
\* The mutant treats it as one more step.
ReplyFinishGoesOn(action) ==
    /\ ToolOf(action) = "finish"
    /\ RepliedWith("finish", action)
    /\ error_feedback' = FeedbackAfterPrompt(step, error_feedback)
    /\ thoughts' = thoughts + 1
    /\ lp_success' = TRUE
    /\ NextStep
    /\ UNCHANGED <<lp_error_message, browser_closed, consecutive_parse_errors,
                   action_history, executed, last_executed>>

\* The mutant of C33 takes a reply without a tool for a failure.
ReplyFinishNeedsTool(action) ==
    /\ ToolOf(action) = "finish"
    /\ RepliedWith("finish", action)
    /\ error_feedback' = FeedbackAfterPrompt(step, error_feedback)
    /\ thoughts' = thoughts + 1
    /\ lp_success' = (action # "missing")
    /\ Break
    /\ UNCHANGED <<lp_error_message, browser_closed, consecutive_parse_errors,
                   action_history, executed, last_executed>>

ReplyFinish(action) ==
    /\ ToolOf(action) = "finish"
    /\ RepliedWith("finish", action)
    /\ error_feedback' = FeedbackAfterPrompt(step, error_feedback)
    /\ thoughts' = thoughts + 1
    /\ lp_success' = TRUE
    /\ Break
    /\ UNCHANGED <<lp_error_message, browser_closed, consecutive_parse_errors,
                   action_history, executed, last_executed>>

ParseErrorsMessage(n) ==
    "Task failed after " \o Digit[n] \o " consecutive parse errors"

\* The reply is the parser's "error" decision: count it, give up at the
\* threshold, otherwise set the feedback and continue.  The mutant never gives
\* up.
ReplyParseErrorNoThreshold ==
    /\ Replied("parse_error")
    /\ thoughts' = thoughts + 1
    /\ consecutive_parse_errors' = consecutive_parse_errors + 1
    /\ error_feedback' = "parse"
    /\ NextStep
    /\ UNCHANGED <<lp_success, lp_error_message, browser_closed, action_history,
                   executed, last_executed>>

ReplyParseError ==
    /\ Replied(IF consecutive_parse_errors + 1 >= MAX_CONSECUTIVE_PARSE_ERRORS
               THEN "parse_give_up" ELSE "parse_error")
    /\ thoughts' = thoughts + 1
    /\ consecutive_parse_errors' = consecutive_parse_errors + 1
    /\ IF consecutive_parse_errors + 1 >= MAX_CONSECUTIVE_PARSE_ERRORS
       THEN /\ lp_error_message' = ParseErrorsMessage(consecutive_parse_errors + 1)
            /\ error_feedback' = FeedbackAfterPrompt(step, error_feedback)
            /\ Break
       ELSE /\ error_feedback' = "parse"
            /\ NextStep
            /\ UNCHANGED lp_error_message
    /\ UNCHANGED <<lp_success, browser_closed, action_history, executed, last_executed>>

\* The reply names the tool "error" with params that are no dict: params.get
\* raises and the exception leaves the loop.
ReplyErrorParamsRaise ==
    /\ Replied("params_raise")
    /\ error_feedback' = FeedbackAfterPrompt(step, error_feedback)
    /\ thoughts' = thoughts + 1
    /\ loop_pc' = "raised" /\ step' = step
    /\ UNCHANGED <<lp_success, lp_error_message, browser_closed,
                   consecutive_parse_errors, action_history, executed, last_executed>>

\* A reply that names a real tool: the parse-error counter is reset and
\* execute_action is called.
Executing(tool, outcome) ==
    /\ tool \in RealTools
    /\ Replied(outcome)
    /\ thoughts' = thoughts + 1
    /\ consecutive_parse_errors' = 0
    /\ executed' = executed + 1
    /\ last_executed' = [step |-> step + 1, tool |-> tool]

\* The facade's answer to a close-style call: nothing is forwarded and nothing
\* is recorded; the result carries success and browser_closed.
CloseResult(history) ==
    [success |-> TRUE, browser_closed |-> TRUE, history |-> history]

\* result["browser_closed"]: success iff the action history is not empty; break.
\* The mutants succeed whatever the history (C14) and go on looping (C15).
ExecuteClosedAlwaysSuccess(tool) ==
    /\ tool \in CloseTools
    /\ Executing(tool, "closed")
    /\ error_feedback' = FeedbackAfterPrompt(step, error_feedback)
    /\ action_history' = CloseResult(action_history).history
    /\ browser_closed' = TRUE
    /\ lp_success' = TRUE
    /\ Break
    /\ UNCHANGED lp_error_message

ExecuteClosedGoesOn(tool) ==
    /\ tool \in CloseTools
    /\ Executing(tool, "closed")
    /\ error_feedback' = FeedbackAfterPrompt(step, error_feedback)
    /\ action_history' = CloseResult(action_history).history
    /\ browser_closed' = CloseResult(action_history).browser_closed
    /\ lp_success' = (Len(action_history') > 0)
    /\ NextStep
    /\ UNCHANGED lp_error_message

ExecuteClosed(tool) ==
    /\ tool \in CloseTools
    /\ Executing(tool, "closed")
    /\ error_feedback' = FeedbackAfterPrompt(step, error_feedback)
    /\ action_history' = CloseResult(action_history).history
    /\ browser_closed' = CloseResult(action_history).browser_closed
    /\ lp_success' = (Len(action_history') > 0)
    /\ Break
    /\ UNCHANGED lp_error_message

\* The action succeeded: the facade recorded it in its history.
ExecuteOk(tool) ==
    /\ tool \notin CloseTools
    /\ Executing(tool, "executed")
    /\ error_feedback' = FeedbackAfterPrompt(step, error_feedback)
    /\ action_history' = Append(action_history, tool)
    /\ NextStep
    /\ UNCHANGED <<lp_success, lp_error_message, browser_closed>>

\* The f-string built from a failed result: the error, the tool and the
\* parameters of the call (the model's calls carry no parameters).
ActionFeedback(tool) ==
    "Your previous action failed with error: <action_error> Tool: " \o tool
        \o " Parameters you provided: {}"

\* The action failed: corrective feedback for the next prompt.
ExecuteFailed(tool) ==
    /\ tool \notin CloseTools
    /\ Executing(tool, "exec_failed")
    /\ error_feedback' = ActionFeedback(tool)
    /\ NextStep
    /\ UNCHANGED <<lp_success, lp_error_message, browser_closed, action_history>>

\* execute_action raises with "closed" or "disconnected" in the text: break.
ExecuteRaisesClosed(tool) ==
    /\ Executing(tool, "closed_exception")
    /\ error_feedback' = FeedbackAfterPrompt(step, error_feedback)
    /\ lp_error_message' = "Exception during action execution: <closed>"
    /\ browser_closed' = TRUE
    /\ lp_success' = (Len(action_history) > 0)
    /\ Break
    /\ UNCHANGED action_history

\* execute_action raises anything else: the message is kept, the loop goes on.
ExecuteRaises(tool) ==
    /\ Executing(tool, "exec_raised")
    /\ error_feedback' = FeedbackAfterPrompt(step, error_feedback)
    /\ lp_error_message' = "Exception during action execution: <e>"
    /\ NextStep
    /\ UNCHANGED <<lp_success, browser_closed, action_history>>

\* range(max_steps) is exhausted: the loop falls through to the return.
Exhausted ==
    /\ loop_pc = "loop"
    /\ step >= max_steps
    /\ loop_pc' = "returned"
    /\ UNCHANGED <<max_steps, step_delay, step, lp_step_count, lp_success, thoughts,
                   lp_error_message, browser_closed, error_feedback,
                   consecutive_parse_errors, current_delay, min_delay, max_delay,
                   consecutive_successes, action_history, agent_calls, last_call, executed,
                   last_executed>>
    /\ LoopFrame

LoopNext ==
    \/ ObserveRaises
    \/ AgentTimeout
    \/ \E e \in AgentErrors : AgentErrorTimeout(e)
    \/ \E e \in AgentErrors : AgentRateLimited(e)
    \/ \E e \in AgentErrors : AgentErrorOther(e)
    \/ ReplyParseRaises
    \/ \E action \in AgentActions : ReplyFinish(action)
    \/ ReplyParseError
    \/ ReplyErrorParamsRaise
    \/ \E tool \in RealTools : ExecuteClosed(tool)
    \/ \E tool \in RealTools : ExecuteOk(tool)
    \/ \E tool \in RealTools : ExecuteFailed(tool)
    \/ \E tool \in RealTools : ExecuteRaisesClosed(tool)
    \/ \E tool \in RealTools : ExecuteRaises(tool)
    \/ Exhausted


\* ======================================================== response parser

\* raw_response keeps response_text[:1000].
RAW_RESPONSE_LIMIT == 1000

\* A reply is a sequence of items, each on a line of its own:
\*   json          <json>BODY</json>
\*   wrapped_json  <answer><json>BODY</json></answer>
\*   line          PREFIX PAYLOAD      (PAYLOAD of PARAMS: is a JSON text)
\*   garbage       any other text
\* BODY and the payload of PARAMS: are JSON texts, by what json.loads does with
\* them: "object" (thought, tool and params), "object_no_tool", "array",
\* "invalid" (JSONDecodeError), "deep" (nested beyond the recursion limit:
\* RecursionError).
JsonTexts == {"object", "object_no_tool", "array", "invalid", "deep"}

TextItems ==
    [kind : {"json", "wrapped_json"}, prefix : {None}, body : JsonTexts]
        \cup [kind : {"line"}, prefix : {"THOUGHT:", "ACTION:", "TOOL:"}, body : {"x"}]
        \cup [kind : {"line"}, prefix : {"PARAMS:"}, body : {"object", "invalid", "deep"}]
        \cup [kind : {"garbage"}, prefix : {None}, body : {None}]

\* Lengths in characters a reply may have.
TextLengths == {200, 1000, 1001}

Texts == [items : UNION {[1..n -> TextItems] : n \in 0..MaxItems}, len : TextLengths]

\* json.loads on a JSON text that it accepts.
JsonValue(t) ==
    CASE t = "object" ->
             [thought |-> "x", tool |-> "browser_click", params |-> [ref |-> "s1"]]
      [] t = "object_no_tool" -> [thought |-> "x", params |-> [ref |-> "s1"]]
      [] t = "array" -> [list |-> "[1, 2]"]

\* response_text[:n], by the text it is a prefix of and its length.
Slice(text, n) == [of |-> text.items, len |-> Min(text.len, n)]

Returns(value) == [kind |-> "return", value |-> value]

Raises(exception) == [kind |-> "raise", value |-> [exception |-> exception]]

\* parse_tags: re.findall finds the outermost tag pairs, the dict keeps the
\* content of the last pair of each name.  The indices of the pairs named json:
JsonTags(text) == {i \in DOMAIN text.items : text.items[i].kind = "json"}

LastOf(S) == CHOOSE i \in S : \A j \in S : j <= i

\* The structured-text loop over the lines from line i on, result being the
\* dict built so far.  json.loads of a PARAMS: payload may raise: a
\* JSONDecodeError is caught ("fallthrough"), a RecursionError is not.
RECURSIVE ParseLines(_, _, _)
ParseLines(text, i, result) ==
    IF i > Len(text.items) THEN [kind |-> "done", value |-> result]
    ELSE LET item == text.items[i]
             Set(key, v) == [k \in DOMAIN result \cup {key} |->
                                IF k = key THEN v ELSE result[k]]
         IN  IF item.kind # "line" THEN ParseLines(text, i + 1, result)
             ELSE IF item.prefix = "THOUGHT:"
                  THEN ParseLines(text, i + 1, Set("thought", item.body))
             ELSE IF item.prefix \in {"ACTION:", "TOOL:"}
                  THEN ParseLines(text, i + 1, Set("tool", item.body))
             ELSE IF item.body = "invalid" THEN [kind |-> "fallthrough", value |-> result]
             ELSE IF item.body = "deep" THEN Raises("RecursionError")
             ELSE ParseLines(text, i + 1, Set("params", [ref |-> "s1"]))

\* The decision returned for an unparseable reply.
ErrorDecision(text) ==
    [thought |-> "PARSE ERROR", tool |-> "error",
     params |-> [error_type |-> "parse_failure",
                 raw_response |-> Slice(text, RAW_RESPONSE_LIMIT)]]

\* The structured-text format, tried when no <json> block gave a value.
StructuredTextFormat(text) ==
    LET lines == ParseLines(text, 1, <<>>)
    IN  IF lines.kind = "raise" THEN lines
        ELSE IF lines.kind = "done" /\ DOMAIN lines.value # {}
             THEN Returns(lines.value)
        ELSE Returns(ErrorDecision(text))

parse_white_agent_response(text) ==
    IF JsonTags(text) # {}
    THEN LET body == text.items[LastOf(JsonTags(text))].body
         IN  IF body = "deep" THEN Raises("RecursionError")
             ELSE IF body = "invalid" THEN StructuredTextFormat(text)
             ELSE Returns(JsonValue(body))
    ELSE StructuredTextFormat(text)

ParserFrame == UNCHANGED <<schedVars, clientVars, valVars, loopVars, facadeVars, replayVars, startupVars, msgVars>>

ParserInit ==
    /\ response_text \in Texts
    /\ parsed = [kind |-> "pending", value |-> <<>>]

\* One call of parse_white_agent_response.
Parse ==
    /\ parsed.kind = "pending"
    /\ parsed' = parse_white_agent_response(response_text)
    /\ UNCHANGED response_text
    /\ ParserFrame

ParserNext == Parse

ParserIdle ==
    /\ response_text = [items |-> <<>>, len |-> 0]
    /\ parsed = [kind |-> "idle", value |-> <<>>]

\* ============================================================ browser facade

\* The tools execute_action dispatches on.
KnownTools == {"click", "type", "select", "get_page_info"}

\* Read-only inspection calls: the facade's own get_page_info and the
\* browser_snapshot the judge's prompt offers.
InspectionTools == {"get_page_info", "browser_snapshot"}

\* The tool names a caller may pass.
FacadeTools == KnownTools \cup InspectionTools \cup CloseTools \cup {"hover"}

\* No execute_action call yet.
NoFacadeCall == [tool |-> None, action_raises |-> FALSE, screenshot_raises |-> FALSE]

\* A result dict; result.get("browser_closed") of a dict without that key is
\* None, which callers read as false.
Result(is_success, error) ==
    [success |-> is_success, error |-> error, browser_closed |-> FALSE]

\* _format_action_for_history with the selector "#go", the text "abc" and the
\* value "v"; any other tool is shown with its parameters.
_format_action_for_history(tool_name) ==
    CASE tool_name = "click" -> "<#go> -> CLICK"
      [] tool_name = "type" -> "<#go> -> TYPE: abc"
      [] tool_name = "select" -> "<#go> -> SELECT: v"
      [] OTHER -> tool_name \o ": {}"

\* f"step_{self.step_count:03d}"
ScreenshotName(n) == IF n = 0 THEN "step_000" ELSE "step_00" \o Digit[n]

FacadeFrame == UNCHANGED <<schedVars, clientVars, valVars, loopVars, parserVars, replayVars, startupVars, msgVars>>

FacadeInit ==
    /\ page = FALSE
    /\ ba_step_count = 0
    /\ ba_action_history = <<>>
    /\ screenshots = <<>>
    /\ ba_result = Result(FALSE, None)
    /\ facade_call = NoFacadeCall
    /\ facade_calls = 0

\* start(url): the page is opened; when the navigation succeeds the initial
\* screenshot step_000 is taken, and start() raises when that capture raises.
BrowserStart(loaded, screenshot_raises) ==
    /\ ~page
    /\ page' = TRUE
    /\ screenshots' = IF loaded /\ ~screenshot_raises
                      THEN Append(screenshots, ScreenshotName(0))
                      ELSE screenshots
    /\ UNCHANGED <<ba_step_count, ba_action_history, ba_result, facade_call,
                   facade_calls>>
    /\ FacadeFrame

\* execute_action after a tool that returned success: the formatted action is
\* appended to the history, then take_screenshot runs inside the same try
\* block, so that a capture that raises replaces the result.
AfterSuccess(tool_name, screenshot_raises) ==
    /\ ba_action_history'
          = Append(ba_action_history, _format_action_for_history(tool_name))
    /\ IF screenshot_raises
       THEN /\ ba_result' = Result(FALSE, "screenshot failed")
            /\ UNCHANGED screenshots
       ELSE /\ ba_result' = Result(TRUE, None)
            /\ screenshots'
                  = Append(screenshots, ScreenshotName(ba_step_count + 1))

\* execute_action(tool_name, **params).  A tool of KnownTools returns success
\* or raises; every other name is an unknown tool.
ExecuteAction(tool_name, action_raises, screenshot_raises) ==
    /\ facade_calls < MaxCalls
    /\ facade_calls' = facade_calls + 1
    /\ facade_call' = [tool |-> tool_name, action_raises |-> action_raises,
                       screenshot_raises |-> screenshot_raises]
    /\ IF ~page
       THEN /\ ba_result' = Result(FALSE, "Browser not started")
            /\ UNCHANGED <<ba_step_count, ba_action_history, screenshots>>
       ELSE /\ ba_step_count' = ba_step_count + 1
            /\ IF tool_name \notin KnownTools
               THEN /\ ba_result' = Result(FALSE, "Unknown tool: " \o tool_name)
                    /\ UNCHANGED <<ba_action_history, screenshots>>
               ELSE IF action_raises
               THEN /\ ba_result' = Result(FALSE, "action raised")
                    /\ UNCHANGED <<ba_action_history, screenshots>>
               ELSE AfterSuccess(tool_name, screenshot_raises)
    /\ UNCHANGED page
    /\ FacadeFrame

FacadeNext ==
    \/ \E loaded \in BOOLEAN, screenshot_raises \in BOOLEAN :
          BrowserStart(loaded, screenshot_raises)
    \/ \E tool_name \in FacadeTools, action_raises \in BOOLEAN,
          screenshot_raises \in BOOLEAN :
          ExecuteAction(tool_name, action_raises, screenshot_raises)

FacadeIdle ==
    /\ page = FALSE
    /\ ba_step_count = 0
    /\ ba_action_history = <<>>
    /\ screenshots = <<>>
    /\ ba_result = Result(FALSE, None)
    /\ facade_call = NoFacadeCall
    /\ facade_calls = 0

\* ============================================================== replay agent

\* ReliabilityAgent.name
AgentName == "reliability_agent"

\* The authors of session events.
Authors == {AgentName, "user"}

\* params of a call without parameters: the empty dict.
EmptyParams == [x \in {} |-> None]

\* ReliabilityAgent.actions: the 7-step script.
Script ==
    << [element_pattern |-> "Godkann alla kakor", tool |-> "browser_click",
        thought |-> "Accept cookie consent",
        params_template |-> [ref |-> None]],
       [element_pattern |-> "[Ff]ran", tool |-> "browser_type",
        thought |-> "Type departure station",
        params_template |-> [ref |-> None, text |-> "T-Centralen"]],
       [element_pattern |-> "T-Centralen \\(Stockholm\\)", tool |-> "browser_click",
        thought |-> "Select T-Centralen from suggestions",
        params_template |-> [ref |-> None]],
       [element_pattern |-> "[Tt]ill", tool |-> "browser_type",
        thought |-> "Type destination",
        params_template |-> [ref |-> None, text |-> "Artipelag"]],
       [element_pattern |-> "Artipelag.*[Vv]armd", tool |-> "browser_click",
        thought |-> "Select Artipelag from suggestions",
        params_template |-> [ref |-> None]],
       [element_pattern |-> "Sok", tool |-> "browser_click",
        thought |-> "Click search button",
        params_template |-> [ref |-> None]],
       [element_pattern |-> None, tool |-> "browser_close",
        thought |-> "Task complete, closing browser",
        params_template |-> EmptyParams] >>

\* A line of the user message as _extract_ref's regular expression sees it:
\* whether the element pattern searched for occurs on the line, and the first
\* [ref=...] tag that follows the occurrence on the same line ("None": no tag
\* follows it there).  A line without the pattern carries the tag of some
\* other element.
SnapshotLines ==
    [matches : {TRUE}, ref : {None, "s1", "s2"}]
        \cup [matches : {FALSE}, ref : {"s1"}]

\* The text of a user message: up to MaxLines lines.
SnapshotTexts == UNION {[1..n -> SnapshotLines] : n \in 0..MaxLines}

\* _get_step_index that counts the events of every author.
GetStepIndexAnyAuthor(events) == Len(events)

\* _get_step_index: the number of session events whose author is the agent.
GetStepIndex(events) ==
    Cardinality({i \in DOMAIN events : events[i] = AgentName})

\* _extract_ref: re.search returns the leftmost occurrence of the pattern that
\* a ref tag follows on its line; None for an empty text or no such line.
ExtractRef(snapshot_text) ==
    LET hits == {i \in DOMAIN snapshot_text :
                    snapshot_text[i].matches /\ snapshot_text[i].ref # None}
    IN  IF hits = {} THEN None
        ELSE snapshot_text[CHOOSE i \in hits : \A j \in hits : i <= j].ref

\* Event(author=self.name, content=<json>{thought, tool, params}</json>)
ModelEvent(thought, tool, params) ==
    [author |-> AgentName, role |-> "model", thought |-> thought, tool |-> tool,
     params |-> params]

\* _run_async_impl: the events it yields for the session events and the text
\* of the user message.
RunAsyncImpl(events, snapshot_text) ==
    LET step_index == GetStepIndex(events) IN
    IF step_index >= Len(Script)
    THEN << ModelEvent("All steps completed", "browser_close", EmptyParams) >>
    ELSE LET action == Script[step_index + 1] IN
         IF action.element_pattern = None
         THEN << ModelEvent(action.thought, action.tool, action.params_template) >>
         ELSE LET ref == ExtractRef(snapshot_text) IN
              IF ref = None
              THEN << ModelEvent("Element not found, requesting snapshot",
                                 "browser_snapshot", EmptyParams) >>
              ELSE << ModelEvent(action.thought, action.tool,
                                 [action.params_template EXCEPT !.ref = ref]) >>

ReplayFrame ==
    UNCHANGED <<schedVars, clientVars, valVars, loopVars, parserVars, facadeVars,
                startupVars, msgVars>>

ReplayInit ==
    /\ session_events = <<>>
    /\ user_content = <<>>
    /\ yielded = <<>>
    /\ invocations = 0

\* An event of another author is appended to the session.
OtherEvent ==
    /\ Len(session_events) < MaxEvents
    /\ Cardinality({i \in DOMAIN session_events : session_events[i] # AgentName})
          < MaxOthers
    /\ session_events' = Append(session_events, "user")
    /\ UNCHANGED <<user_content, yielded, invocations>>
    /\ ReplayFrame

\* The runner invokes the agent on a user message and appends the events the
\* agent yields to the session.
Invoke(snapshot_text) ==
    /\ Len(session_events) < MaxEvents
    /\ user_content' = snapshot_text
    /\ yielded' = RunAsyncImpl(session_events, snapshot_text)
    /\ session_events'
          = session_events \o [i \in DOMAIN yielded' |-> yielded'[i].author]
    /\ invocations' = invocations + 1
    /\ ReplayFrame

ReplayNext ==
    \/ OtherEvent
    \/ \E snapshot_text \in SnapshotTexts : Invoke(snapshot_text)

ReplayIdle ==
    /\ session_events = <<>>
    /\ user_content = <<>>
    /\ yielded = <<>>
    /\ invocations = 0

\* ======================================================== concurrent startup

StartCallIds == 1..MaxStartCalls
ClientIds == 1..MaxClients

StartupFrame ==
    UNCHANGED <<schedVars, clientVars, valVars, loopVars, parserVars, facadeVars,
                replayVars, msgVars>>

StartupInit ==
    /\ st_client \in [StartCallIds -> ClientIds]
    /\ st_pc = [c \in StartCallIds |-> "new"]
    /\ startup_lock = 0
    /\ lock_waiters = <<>>
    /\ cl_server_process = [x \in ClientIds |-> 0]
    /\ cl_launched = [x \in ClientIds |-> {}]
    /\ popen_count = 0

\* The call c holds the lock and runs _start_server_internal up to its first
\* await: mkdtemp, then Popen, which raises (the except clause drops the handle
\* and the lock is released) or launches a subprocess and stores its handle,
\* whatever handle the client holds already.
EnterStartup(c, popen_raises) ==
    /\ startup_lock' = IF popen_raises THEN 0 ELSE c
    /\ IF popen_raises
       THEN /\ st_pc' = [st_pc EXCEPT ![c] = "raised"]
            /\ cl_server_process' = [cl_server_process EXCEPT ![st_client[c]] = 0]
            /\ UNCHANGED <<cl_launched, popen_count>>
       ELSE /\ st_pc' = [st_pc EXCEPT ![c] = "starting"]
            /\ popen_count' = popen_count + 1
            /\ cl_server_process'
                  = [cl_server_process EXCEPT ![st_client[c]] = popen_count + 1]
            /\ cl_launched' = [cl_launched EXCEPT
                                 ![st_client[c]] = @ \cup {popen_count + 1}]

\* start() on a client whose server_process is set: a warning, return.
StartCallAlreadyRunning(c) ==
    /\ st_pc[c] = "new"
    /\ cl_server_process[st_client[c]] # 0
    /\ st_pc' = [st_pc EXCEPT ![c] = "returned"]
    /\ UNCHANGED <<st_client, startup_lock, lock_waiters, cl_server_process,
                   cl_launched, popen_count>>
    /\ StartupFrame

\* start() with no server and the lock free: acquire() returns without
\* suspending and the call enters _start_server_internal at once.
StartCallEnters(c, popen_raises) ==
    /\ st_pc[c] = "new"
    /\ cl_server_process[st_client[c]] = 0
    /\ startup_lock = 0 /\ lock_waiters = <<>>
    /\ EnterStartup(c, popen_raises)
    /\ UNCHANGED <<st_client, lock_waiters>>
    /\ StartupFrame

\* start() with no server and the lock taken: the call is suspended in
\* acquire(), behind the calls already waiting.
StartCallWaits(c) ==
    /\ st_pc[c] = "new"
    /\ cl_server_process[st_client[c]] = 0
    /\ ~(startup_lock = 0 /\ lock_waiters = <<>>)
    /\ st_pc' = [st_pc EXCEPT ![c] = "waiting"]
    /\ lock_waiters' = Append(lock_waiters, c)
    /\ UNCHANGED <<st_client, startup_lock, cl_server_process, cl_launched,
                   popen_count>>
    /\ StartupFrame

\* The lock was released: the first waiter is woken, acquires it and enters
\* _start_server_internal.
StartCallResumes(c, popen_raises) ==
    /\ lock_waiters # <<>> /\ Head(lock_waiters) = c
    /\ startup_lock = 0
    /\ lock_waiters' = Tail(lock_waiters)
    /\ EnterStartup(c, popen_raises)
    /\ UNCHANGED st_client
    /\ StartupFrame

\* The call that holds the lock ends: the handshake succeeded and start()
\* returns, or it failed, the except clause drops the handle and start()
\* raises; the lock is released either way.
StartCallEnds(c, failed) ==
    /\ st_pc[c] = "starting"
    /\ startup_lock = c
    /\ startup_lock' = 0
    /\ st_pc' = [st_pc EXCEPT ![c] = IF failed THEN "raised" ELSE "returned"]
    /\ cl_server_process' = IF failed
                            THEN [cl_server_process EXCEPT ![st_client[c]] = 0]
                            ELSE cl_server_process
    /\ UNCHANGED <<st_client, lock_waiters, cl_launched, popen_count>>
    /\ StartupFrame

StartupNext ==
    \E c \in StartCallIds :
        \/ StartCallAlreadyRunning(c)
        \/ \E popen_raises \in BOOLEAN : StartCallEnters(c, popen_raises)
        \/ StartCallWaits(c)
        \/ \E popen_raises \in BOOLEAN : StartCallResumes(c, popen_raises)
        \/ \E failed \in BOOLEAN : StartCallEnds(c, failed)

StartupIdle ==
    /\ st_client = [c \in StartCallIds |-> 1]
    /\ st_pc = [c \in StartCallIds |-> "new"]
    /\ startup_lock = 0
    /\ lock_waiters = <<>>
    /\ cl_server_process = [x \in ClientIds |-> 0]
    /\ cl_launched = [x \in ClientIds |-> {}]
    /\ popen_count = 0

\* ============================================================ agent messaging
\* agentbeats.client.send_message and agentbeats.tool_provider.ToolProvider.

Urls == {"u1", "u2"}

ContextIds == {None, "c1", "c2"}

\* outputs.get("status", "completed"): a Message reply carries no status.
Statuses == {None, "completed", "failed"}

\* What send_message returns: outputs, of which the callers read these keys.
Outputs == [status : Statuses, context_id : ContextIds]

\* The exceptions a pass through the try block raises, by their text.
SendErrors == {{}, {"429"}, {"resource_exhausted"}, {"too many requests"}, {"quota"}}

base_delay == 2

\* is_rate_limit of send_message
IsRateLimitText(text) ==
    \/ "429" \in text
    \/ "resource_exhausted" \in text
    \/ "too many requests" \in text

\* "if is_rate_limit and retry_count < max_retries". The mutant retries once
\* more.
RetriesInclusive(text, count, limit) == IsRateLimitText(text) /\ count <= limit

Retries(text, count, limit) == IsRateLimitText(text) /\ count < limit

\* delay = base_delay * (2 ** retry_count)
RetryDelay(count) == base_delay * Pow(2, count)

\* The parameters of send_message, and the keywords talk_to_agent calls it with.
SendMessageParams ==
    {"message", "base_url", "context_id", "streaming", "consumer", "max_retries"}

TalkKeywords == {"message", "base_url", "context_id", "parts"}

\* Python binds the keywords of a call to the parameters of a function without
\* **kwargs before its body runs, and raises TypeError for an unknown one.
Binds(keywords, params) == keywords \subseteq params

NoTalk == [url |-> None, new_conversation |-> FALSE, context_id |-> "unbound",
           raised |-> None]

\* send_message has neither returned nor raised.
NoResult == [pending |-> TRUE]

MsgFrame == UNCHANGED <<schedVars, clientVars, valVars, loopVars, parserVars, facadeVars, replayVars, startupVars>>

MsgInit ==
    /\ max_retries = 0
    /\ retry_count = 0
    /\ sm_pc = "idle"
    /\ attempts = 0
    /\ delays = <<>>
    /\ attempt_error = {}
    /\ sm_result = NoResult
    /\ _context_ids = [u \in Urls |-> None]
    /\ completed_ids = [u \in Urls |-> None]
    /\ talk = NoTalk
    /\ talks = 0

tpVars == <<_context_ids, completed_ids, talk, talks>>

smVars == <<max_retries, retry_count, sm_pc, attempts, delays, attempt_error, sm_result>>

\* send_message(..., max_retries=limit) is called: retry_count = 0 and the
\* while loop is entered.
SendMessage(limit) ==
    /\ sm_pc \in {"idle", "returned", "raised"}
    /\ max_retries' = limit
    /\ retry_count' = 0
    /\ attempts' = 0
    /\ delays' = <<>>
    /\ attempt_error' = {}
    /\ sm_result' = NoResult
    /\ sm_pc' = "attempt"
    /\ UNCHANGED tpVars
    /\ MsgFrame

\* A pass through the try block reaches "return outputs".
AttemptReturns(outputs) ==
    /\ sm_pc = "attempt"
    /\ attempts' = attempts + 1
    /\ attempt_error' = {}
    /\ sm_result' = [returned |-> outputs]
    /\ sm_pc' = "returned"
    /\ UNCHANGED <<max_retries, retry_count, delays>>
    /\ UNCHANGED tpVars
    /\ MsgFrame

\* A pass through the try block raises: the except clause sleeps and goes
\* round the while loop again, or re-raises.
AttemptRaises(text) ==
    /\ sm_pc = "attempt"
    /\ attempts' = attempts + 1
    /\ attempt_error' = {text}
    /\ IF Retries(text, retry_count, max_retries)
       THEN /\ delays' = Append(delays, RetryDelay(retry_count))
            /\ retry_count' = retry_count + 1
            /\ IF retry_count + 1 <= max_retries
               THEN sm_pc' = "attempt" /\ sm_result' = sm_result
               ELSE sm_pc' = "returned" /\ sm_result' = [returned |-> None]
       ELSE /\ sm_pc' = "raised"
            /\ sm_result' = [raised |-> text]
            /\ UNCHANGED <<retry_count, delays>>
    /\ UNCHANGED max_retries
    /\ UNCHANGED tpVars
    /\ MsgFrame

\* ToolProvider.talk_to_agent(url=url, new_conversation=..., parts=...):
\* result is what send_message does once it runs, a returned outputs or a
\* raised exception.
TalkToAgent(url, new_conversation, result) ==
    LET context_id == IF new_conversation THEN None ELSE _context_ids[url]
        call == [url |-> url, new_conversation |-> new_conversation,
                 context_id |-> context_id, raised |-> None]
    IN  /\ talks < MaxTalks
        /\ talks' = talks + 1
        /\ IF ~Binds(TalkKeywords, SendMessageParams)
           THEN /\ talk' = [call EXCEPT !.context_id = "unbound", !.raised = "TypeError"]
                /\ UNCHANGED <<_context_ids, completed_ids>>
           ELSE IF "raised" \in DOMAIN result
           THEN /\ talk' = [call EXCEPT !.raised = "send_message"]
                /\ UNCHANGED <<_context_ids, completed_ids>>
           ELSE IF (IF result.returned.status = None THEN "completed"
                    ELSE result.returned.status) # "completed"
           THEN /\ talk' = [call EXCEPT !.raised = "RuntimeError"]
                /\ UNCHANGED <<_context_ids, completed_ids>>
           ELSE /\ talk' = call
                /\ _context_ids' = [_context_ids EXCEPT ![url] = result.returned.context_id]
                /\ completed_ids' = [completed_ids EXCEPT ![url] = result.returned.context_id]
        /\ UNCHANGED smVars
        /\ MsgFrame

SendResults == [returned : Outputs] \cup [raised : SendErrors]

MsgNext ==
    \/ \E limit \in 0..MaxRetries : SendMessage(limit)
    \/ \E outputs \in Outputs : AttemptReturns(outputs)
    \/ \E text \in SendErrors : AttemptRaises(text)
    \/ \E url \in Urls, new_conversation \in BOOLEAN, result \in SendResults :
          TalkToAgent(url, new_conversation, result)

MsgIdle ==
    /\ max_retries = 0
    /\ retry_count = 0
    /\ sm_pc = "idle"
    /\ attempts = 0
    /\ delays = <<>>
    /\ attempt_error = {}
    /\ sm_result = NoResult
    /\ _context_ids = <<>>
    /\ completed_ids = <<>>
    /\ talk = NoTalk
    /\ talks = 0

\* ========================================================== specifications

\* The components a specification does not exercise stay in a fixed state.
SchedIdle ==
    /\ _level = None
    /\ _limit = 0
    /\ MAX_PARALLEL_TASKS = 1
    /\ merged_tasks = <<>>
    /\ semaphore = 1
    /\ pc = <<>>
    /\ success = <<>>
    /\ step_count = <<>>
    /\ error_message = <<>>
    /\ exc = <<>>
    /\ run_pc = "idle"
    /\ task_results = <<>>

ValIdle ==
    /\ val_by_name = <<>>
    /\ val_tool_name = "tool"
    /\ val_args = <<>>
    /\ val_result = <<FALSE, "idle">>

LoopIdle ==
    /\ max_steps = 0
    /\ step_delay = 0
    /\ step = 0
    /\ lp_step_count = 0
    /\ lp_success = FALSE
    /\ thoughts = 0
    /\ lp_error_message = None
    /\ browser_closed = FALSE
    /\ error_feedback = None
    /\ consecutive_parse_errors = 0
    /\ current_delay = 0
    /\ min_delay = 0
    /\ max_delay = 0
    /\ consecutive_successes = 0
    /\ action_history = <<>>
    /\ agent_calls = 0
    /\ last_call = NoCall
    /\ executed = 0
    /\ last_executed = NoExecution
    /\ loop_pc = "idle"

SchedNext ==
    \/ \E i \in TaskIdx : Acquire(i)
    \/ \E i \in TaskIdx : SetupOk(i)
    \/ \E i \in TaskIdx : SetupRaise(i)
    \/ \E i \in TaskIdx : BodyReturn(i)
    \/ \E i \in TaskIdx : BodyRaise(i)
    \/ \E i \in TaskIdx : SaveRaise(i)
    \/ \E i \in TaskIdx : StopOk(i)
    \/ \E i \in TaskIdx : StopRaise(i)
    \/ Gather

SchedSpecInit == SchedInit /\ ClientInit /\ ValIdle /\ LoopIdle /\ ParserIdle /\ FacadeIdle /\ ReplayIdle /\ StartupIdle /\ MsgIdle

SchedSpec == SchedSpecInit /\ [][SchedNext]_vars

\* The event loop runs a coroutine that is ready, and every task's run ends:
\* a step that can be taken is taken.  The runs are those with a task limit
\* and no level filter.
SchedLiveSpecInit == SchedSpecInit /\ _level = None /\ _limit > 0

SchedLiveSpec == SchedLiveSpecInit /\ [][SchedNext]_vars /\ WF_vars(SchedNext)

ClientSpecInit == SchedIdle /\ ClientInit /\ ValIdle /\ LoopIdle /\ ParserIdle /\ FacadeIdle /\ ReplayIdle /\ StartupIdle /\ MsgIdle

ClientSpec == ClientSpecInit /\ [][ClientNext]_vars

ValSpecInit == SchedIdle /\ ClientInit /\ ValInit /\ LoopIdle /\ ParserIdle /\ FacadeIdle /\ ReplayIdle /\ StartupIdle /\ MsgIdle

ValSpec == ValSpecInit /\ [][ValNext]_vars

LoopSpecInit == SchedIdle /\ ClientInit /\ ValIdle /\ LoopInit /\ ParserIdle /\ FacadeIdle /\ ReplayIdle /\ StartupIdle /\ MsgIdle

LoopSpec == LoopSpecInit /\ [][LoopNext]_vars

\* The event loop keeps running the task's coroutine: an iteration that can
\* be taken is taken.  Every sleep of the loop is finite; the tasks of this
\* specification run without a delay between their steps.
LoopLiveSpecInit == LoopSpecInit /\ step_delay = 0

LoopLiveSpec == LoopLiveSpecInit /\ [][LoopNext]_vars /\ WF_vars(LoopNext)

ParserSpecInit == SchedIdle /\ ClientInit /\ ValIdle /\ LoopIdle /\ ParserInit /\ FacadeIdle /\ ReplayIdle /\ StartupIdle /\ MsgIdle

ParserSpec == ParserSpecInit /\ [][ParserNext]_vars

FacadeSpecInit ==
    /\ SchedIdle /\ ClientInit /\ ValIdle /\ LoopIdle /\ ParserIdle /\ FacadeInit
    /\ ReplayIdle /\ StartupIdle /\ MsgIdle

FacadeSpec == FacadeSpecInit /\ [][FacadeNext]_vars

ReplaySpecInit ==
    /\ SchedIdle /\ ClientInit /\ ValIdle /\ LoopIdle /\ ParserIdle /\ FacadeIdle
    /\ ReplayInit /\ StartupIdle /\ MsgIdle

ReplaySpec == ReplaySpecInit /\ [][ReplayNext]_vars

StartupSpecInit ==
    /\ SchedIdle /\ ClientInit /\ ValIdle /\ LoopIdle /\ ParserIdle /\ FacadeIdle
    /\ ReplayIdle /\ StartupInit /\ MsgIdle

StartupSpec == StartupSpecInit /\ [][StartupNext]_vars

MsgSpecInit ==
    /\ SchedIdle /\ ClientInit /\ ValIdle /\ LoopIdle /\ ParserIdle /\ FacadeIdle
    /\ ReplayIdle /\ StartupIdle /\ MsgInit

MsgSpec == MsgSpecInit /\ [][MsgNext]_vars


\* ------------------------------------------------------- scheduler claims

\* C1: during run_eval at most MAX_PARALLEL_TASKS tasks are inside
\* _run_single_task; each of them holds one permit of the semaphore, so a task
\* beyond the ceiling cannot start before a running task has released one.
C1_CeilingRespected ==
    /\ Cardinality(Running) <= MAX_PARALLEL_TASKS
    /\ semaphore = MAX_PARALLEL_TASKS - Cardinality(Running)
    /\ semaphore >= 0

\* C1 witness: the ceiling is reached, a task waits for a permit and another
\* task has already released one.
C1_Witness ==
    /\ MAX_PARALLEL_TASKS >= 1
    /\ Cardinality(Running) = MAX_PARALLEL_TASKS
    /\ \E i \in TaskIdx : pc[i] = "pending"
    /\ \E i \in TaskIdx : pc[i] \in Finished

C38_AllResultsGathered ==
    /\ (MAX_PARALLEL_TASKS >= 1) =>
          <>(run_pc = "reported" /\ Len(task_results) = Len(merged_tasks))
    /\ \A i \in 1..MaxTasks :
          (MAX_PARALLEL_TASKS >= 1 /\ i \in DOMAIN pc /\ pc[i] = "pending")
              ~> (i \in DOMAIN pc /\ pc[i] # "pending")

\* Two tasks under a ceiling of 1, one of which raised, are both gathered.
C38_Witness ==
    /\ MAX_PARALLEL_TASKS = 1
    /\ run_pc = "reported"
    /\ Len(merged_tasks) = 2
    /\ Len(task_results) = 2
    /\ \E i \in DOMAIN pc : pc[i] = "raised"

\* ---------------------------------------------------------- client claims

\* C4: the result a call returns is taken from the response whose id equals
\* the id of the request that call sent.
C4_ResultFromOwnResponse ==
    (~last.raised /\ last.resp # 0) => last.resp = last.req

\* C5: the message id starts at 0 and every request carries an id strictly
\* greater than every id sent before, across failed calls and restarts.
C5_IdsStrictlyIncrease ==
    /\ \A k \in 1..Len(sent) :
          /\ sent[k].id >= 1
          /\ k > 1 => sent[k].id > sent[k - 1].id
    /\ _message_id = (IF sent = <<>> THEN 0 ELSE sent[Len(sent)].id)

\* C5 witness: a call that failed after its request went to the second server
\* process, the first requests having gone to the first one.
C5_Witness ==
    /\ Len(sent) >= 4
    /\ sent[1].proc = 1
    /\ sent[Len(sent)].proc = 2
    /\ sent[Len(sent)].method = "tools/call"
    /\ last.op = "call_tool" /\ last.raised /\ last.req = sent[Len(sent)].id

\* C6: call_tool on a client whose handshake is not complete (never started,
\* start failed, or stopped) raises and writes nothing to a server.
C6_NotReadyRefusesCalls ==
    [][\A tool_name \in CallNames, arguments \in CallArgs :
          (lifecycle # "ready" /\ CallTool(tool_name, arguments)) =>
              /\ last' .op = "call_tool"
              /\ last' .raised
              /\ sent' = sent
              /\ _message_id' = _message_id
              /\ outstanding' = outstanding
              /\ op_pc' = "idle"]_vars

\* C6 witness: a stopped client with its tools still cached has refused a call
\* whose arguments are valid.
C6_Witness ==
    /\ lifecycle = "stopped"
    /\ ~_tools_cache.is_none
    /\ last = Raised("call_tool", "not initialized", 0)

\* C7: when start() has raised, whatever step of the handshake failed, the
\* client is not marked ready.
C7_FailedStartNotReady ==
    (op_pc = "idle" /\ last.op = "start" /\ last.raised) => ~_initialized

\* C9: a call_tool whose arguments fail validation raises without a round
\* trip: nothing is written, the message id is unchanged and no response is
\* awaited.
C9_ValidationFailureSendsNothing ==
    [][\A tool_name \in CallNames, arguments \in CallArgs :
          (/\ _initialized
           /\ ~ValidateArguments(_tools_by_name, tool_name, arguments)[1]
           /\ CallTool(tool_name, arguments)) =>
              /\ last' = Raised("call_tool", "validation", 0)
              /\ sent' = sent
              /\ _message_id' = _message_id
              /\ outstanding' = outstanding
              /\ op_pc' = "idle"]_vars

\* C9 witness: a ready client with a running server has rejected a call.
C9_Witness ==
    /\ lifecycle = "ready"
    /\ server_process # 0
    /\ last = Raised("call_tool", "validation", 0)

\* C10: with a cached list, list_tools() without force_refresh returns the
\* cache and sends nothing, whether or not a server runs; with force_refresh
\* and a server it sends a tools/list request with the next id, and the answer
\* replaces both the cache and the by-name index.
C10_ListToolsCaching ==
    [][/\ (ListTools(FALSE) /\ ~_tools_cache.is_none) =>
              /\ last' = Returned("list_tools", 0, 0, _tools_cache.tools)
              /\ sent' = sent
              /\ _message_id' = _message_id
              /\ _tools_cache' = _tools_cache
              /\ _tools_by_name' = _tools_by_name
              /\ op_pc' = "idle"
       /\ (ListTools(TRUE) /\ server_process # 0) =>
              /\ sent' = Append(sent, [id |-> _message_id + 1,
                                       method |-> "tools/list",
                                       proc |-> server_process])
              /\ op_pc' = "list"
       /\ (ListResponse /\ ~last' .raised) =>
              /\ \E req \in outstanding : \E resp \in Answers(req) :
                    last' .value = ExtractTools(resp)
              /\ _tools_cache' = Cached(last' .value)
              /\ _tools_by_name' = IndexByName(last' .value)]_vars

\* C10 witness: a forced refresh has replaced the two-tool list of the
\* handshake by a one-tool list, after an earlier call was answered from the
\* cache with no server running.
C10_Witness ==
    /\ last.op = "list_tools" /\ ~last.raised /\ last.req > 2
    /\ last.value = <<NavTool>>
    /\ _tools_cache = Cached(<<NavTool>>)
    /\ DOMAIN _tools_by_name = {"browser_navigate"}
    /\ sent[2].method = "tools/list" /\ sent[2].proc = 1
    /\ server_process = 2

\* ------------------------------------------------------ validation claims

\* A value is of a declared JSON-schema primitive type.
JsonTypeOf(value, declared) ==
    CASE declared = "string"  -> value = "str"
      [] declared = "number"  -> value \in {"int", "float"}
      [] declared = "integer" -> value = "int"
      [] declared = "boolean" -> value = "bool"
      [] declared = "array"   -> value = "list"
      [] declared = "object"  -> value = "dict"

\* C8: for a tool in the schema cache, _validate_arguments accepts exactly
\* when every required field is present and every supplied argument the schema
\* declares with a primitive type has a value of that type; a missing required
\* field gives 'Missing required field', a wrongly typed value 'Type mismatch'.
C8_ValidationExact ==
    (val_result[2] \notin {"pending", "idle"} /\ val_tool_name \in DOMAIN val_by_name) =>
        LET schema == val_by_name[val_tool_name]
            allRequired == \A k \in 1..Len(schema.required) :
                               schema.required[k] \in DOMAIN val_args
            wellTyped == \A a \in DOMAIN val_args :
                             (a \in DOMAIN schema.properties
                              /\ schema.properties[a] \in SchemaTypes)
                                 => JsonTypeOf(val_args[a], schema.properties[a])
        IN  /\ val_result[1] <=> (allRequired /\ wellTyped)
            /\ ~allRequired => val_result = <<FALSE, "Missing required field">>
            /\ (allRequired /\ ~wellTyped) => val_result = <<FALSE, "Type mismatch">>

\* ------------------------------------------------------- task loop claims

\* A step of the loop in which talk_to_agent was called, by how it went on.
AfterCall(outcomes) ==
    agent_calls' = agent_calls + 1 /\ last_call'.outcome \in outcomes

\* Outcomes after which the loop goes on to the next iteration.
GoOnOutcomes == {"rate_limit", "parse_error", "executed", "exec_failed", "exec_raised"}

TimeoutOutcomes == {"timeout", "error_timeout"}

ExecutedOutcomes ==
    {"executed", "exec_failed", "exec_raised", "closed", "closed_exception"}

C12_FinishTerminates ==
    [][ /\ AfterCall({"finish"}) =>
              /\ loop_pc' = "returned"
              /\ lp_success'
              /\ lp_step_count' = last_call'.step
              /\ lp_step_count' = step + 1
              /\ executed' = executed
        /\ last_call.outcome = "finish" =>
              (agent_calls' = agent_calls /\ executed' = executed) ]_vars

C12_Witness ==
    /\ max_steps = 3
    /\ loop_pc = "returned"
    /\ last_call.outcome = "finish"
    /\ agent_calls = 1
    /\ lp_step_count = 1
    /\ lp_success

\* C13: every unparsable reply adds one to consecutive_parse_errors and executes
\* no browser action; every reply that leads to an action resets the counter to
\* zero; when the counter reaches 3 the loop returns success = False with the
\* message "Task failed after 3 consecutive parse errors".
C13_ParseErrorThreshold ==
    [][ /\ AfterCall({"parse_error", "parse_give_up"}) =>
              /\ consecutive_parse_errors' = consecutive_parse_errors + 1
              /\ executed' = executed
              /\ action_history' = action_history
              /\ consecutive_parse_errors' >= 3 =>
                    /\ loop_pc' = "returned"
                    /\ ~lp_success'
                    /\ lp_error_message' = "Task failed after 3 consecutive parse errors"
              /\ consecutive_parse_errors' < 3 => loop_pc' = "loop"
        /\ AfterCall(ExecutedOutcomes) => consecutive_parse_errors' = 0
        /\ consecutive_parse_errors' <= 3 ]_vars

C13_Witness ==
    /\ loop_pc = "returned"
    /\ consecutive_parse_errors = 3
    /\ agent_calls = 3
    /\ executed = 0
    /\ ~lp_success
    /\ lp_error_message = "Task failed after 3 consecutive parse errors"

C15_NoCallsAfterClose ==
    browser_closed =>
        /\ loop_pc = "returned"
        /\ last_call.outcome \in {"closed", "closed_exception"}
        /\ last_call.step = lp_step_count
        /\ last_executed.step = lp_step_count

C15_Witness ==
    /\ browser_closed
    /\ executed = 3
    /\ agent_calls = 4
    /\ last_executed.tool = "browser_close"

\* C16: a timeout of the agent call (wait_for expiring, or an error classified
\* as a timeout) ends the loop in that iteration with success = False and an
\* error message; no reply is parsed, no action is executed and the agent is
\* not called again.
C16_TimeoutNotRetried ==
    [][ /\ AfterCall(TimeoutOutcomes) =>
              /\ loop_pc' = "returned"
              /\ ~lp_success'
              /\ lp_error_message' \in {"White agent response timed out after 300s",
                                        "White agent timed out: <e>"}
              /\ thoughts' = thoughts
              /\ executed' = executed
        /\ last_call.outcome \in TimeoutOutcomes =>
              (agent_calls' = agent_calls /\ executed' = executed) ]_vars

C16_Witness ==
    /\ loop_pc = "returned"
    /\ last_call.outcome = "timeout"
    /\ last_call.step = 2
    /\ max_steps = 3
    /\ ~lp_success

\* C17: after a rate-limit error the next agent call is made for the same step
\* index as the call that failed.
C17_RateLimitRetriesSameStep ==
    [][ (agent_calls' = agent_calls + 1 /\ last_call.outcome = "rate_limit") =>
            last_call'.step = last_call.step ]_vars

\* C18: with step_delay >= 0, min_delay = step_delay, max_delay = 8 * step_delay
\* and min_delay <= current_delay <= max_delay in every state of the loop.
C18_DelayWithinBounds ==
    /\ min_delay = step_delay * DelayUnit
    /\ max_delay = 8 * min_delay
    /\ min_delay <= current_delay
    /\ current_delay <= max_delay

\* The cap has cut a doubling (four rate-limit errors in a row).
C18_Witness ==
    /\ step_delay > 0
    /\ current_delay = max_delay
    /\ last_call.outcome = "rate_limit"
    /\ agent_calls = 4
    /\ thoughts = 0

\* C19: a rate-limit error sets current_delay to min(max_delay, 2 *
\* current_delay), which is larger than before unless the delay was at
\* max_delay already, and resets consecutive_successes to zero.
C19_RateLimitDoublesDelay ==
    [][ AfterCall({"rate_limit"}) =>
            /\ current_delay' = Min(max_delay, 2 * current_delay)
            /\ current_delay < max_delay => current_delay' > current_delay
            /\ current_delay = max_delay => current_delay' = current_delay
            /\ consecutive_successes' = 0 ]_vars

C19_Witness ==
    /\ last_call.outcome = "rate_limit"
    /\ step_delay > 0
    /\ current_delay = 2 * min_delay
    /\ consecutive_successes = 0
    /\ thoughts = 2

\* A step in which talk_to_agent returned a reply.
AfterReply ==
    agent_calls' = agent_calls + 1 /\ consecutive_successes' = consecutive_successes + 1

\* C20 as stated: at the third and every later consecutive successful reply
\* current_delay strictly decreases and stays at or above min_delay.
C20_ShrinksAfterThreeSuccesses ==
    [][ (AfterReply /\ consecutive_successes' >= 3) =>
            (current_delay' < current_delay /\ current_delay' >= min_delay) ]_vars

\* C20 amended: at the third and every later consecutive successful reply a
\* current_delay above min_delay strictly decreases, to max(min_delay, 0.8 *
\* current_delay), and a current_delay at min_delay stays there; with fewer
\* than three consecutive successes it does not change.
C20_ShrinksTowardsFloor ==
    [][ AfterReply =>
            /\ (consecutive_successes' >= 3 /\ current_delay > min_delay) =>
                  /\ current_delay' < current_delay
                  /\ current_delay' >= min_delay
                  /\ current_delay' = Max(min_delay, (4 * current_delay) \div 5)
            /\ (consecutive_successes' >= 3 /\ current_delay = min_delay) =>
                  current_delay' = current_delay
            /\ consecutive_successes' < 3 => current_delay' = current_delay ]_vars

\* The floor has cut a shrink: one rate-limit error, then six replies.
C20_Witness ==
    /\ step_delay > 0
    /\ agent_calls = 7
    /\ consecutive_successes = 6
    /\ current_delay = min_delay

\* C28: an executed action that fails, by a failure result or by an exception
\* other than a browser close, does not end the task, and the prompt of the
\* next call carries the corrective feedback that names the failure, the tool
\* and the parameters.
C28_FailedActionGetsFeedback ==
    [][/\ (agent_calls' = agent_calls + 1
           /\ last_call'.outcome \in {"exec_failed", "exec_raised"}) =>
             loop_pc' = "loop"
       /\ (agent_calls' = agent_calls + 1
           /\ last_call.outcome \in {"exec_failed", "exec_raised"}) =>
             last_call'.prompt
                = "Your previous action failed with error: <action_error> Tool: "
                    \o last_executed.tool \o " Parameters you provided: {}"
      ]_vars

\* C29: an exception of the agent call is treated as a rate limit exactly when
\* its text contains "429", "quota", "resource_exhausted", or both "rate" and
\* "limit"; every such exception doubles the delay up to its cap, resets the
\* success counter and lets the loop go on instead of ending the task.
C29_RateLimitClassification ==
    [][agent_calls' = agent_calls + 1 =>
          \A e \in last_call'.raised :
             LET matches == \/ "429" \in e.text
                            \/ "quota" \in e.text
                            \/ "resource_exhausted" \in e.text
                            \/ {"rate", "limit"} \subseteq e.text
             IN  /\ (last_call'.outcome = "rate_limit") <=> matches
                 /\ matches =>
                       /\ loop_pc' = "loop"
                       /\ lp_error_message' = lp_error_message
                       /\ consecutive_successes' = 0
                       /\ current_delay' = Min(2 * current_delay, max_delay)
      ]_vars

C39_SuccessHasNoError ==
    (loop_pc = "returned" /\ lp_success) => lp_error_message = None

\* No talk_to_agent call of this task has returned a reply so far: every call
\* made raised a rate-limit error.
NoReplyYet ==
    \/ agent_calls = 0
    \/ /\ last_call.outcome = "rate_limit"
       /\ thoughts = 0
       /\ consecutive_parse_errors = 0
       /\ executed = 0

\* C35: the first agent call that returns a reply carries the initial task
\* prompt (with the tool catalogue) and is sent as a new conversation, also
\* when earlier attempts failed with rate-limit errors.
C35_FirstDeliveredIsInitialPrompt ==
    [][ (NoReplyYet /\ AfterReply) =>
            /\ last_call'.prompt = "initial"
            /\ last_call'.new_conversation ]_vars

\* The replies of C33: a <json> object without "tool", a THOUGHT: line alone
\* and a PARAMS: line alone.
NoToolTexts ==
    {[items |-> <<item>>, len |-> 200] :
        item \in {[kind |-> "json", prefix |-> None, body |-> "object_no_tool"],
                  [kind |-> "line", prefix |-> "THOUGHT:", body |-> "x"],
                  [kind |-> "line", prefix |-> "PARAMS:", body |-> "object"]}}

\* C33: a reply whose parsed form carries no "tool" entry (a <json> object
\* without "tool", or line-format text with only THOUGHT: or PARAMS:) is parsed
\* to a dict without that key, is treated by the task loop as the tool "finish"
\* and ends the task with success = True.
C33_NoToolMeansFinish ==
    /\ [](\A text \in NoToolTexts :
            /\ parse_white_agent_response(text).kind = "return"
            /\ "tool" \notin DOMAIN parse_white_agent_response(text).value)
    /\ ToolOf("missing") = "finish"
    /\ [][ (agent_calls' = agent_calls + 1 /\ last_call'.parsed_tool = "missing") =>
              /\ last_call'.outcome = "finish"
              /\ loop_pc' = "returned"
              /\ lp_success'
              /\ executed' = executed ]_vars

\* The first call failed on a rate limit, the second reply has no tool.
C33_Witness ==
    /\ loop_pc = "returned"
    /\ last_call.parsed_tool = "missing"
    /\ last_call.step = 2
    /\ lp_success
    /\ thoughts = 1

\* ------------------------------------------------------------ parser claims

\* The items of a reply that hold a <json> block, and its lines in the
\* THOUGHT:/ACTION:/PARAMS: format.
JsonBlocks(text) ==
    {i \in DOMAIN text.items : text.items[i].kind \in {"json", "wrapped_json"}}

FormatLines(text) ==
    {i \in DOMAIN text.items :
        text.items[i].kind = "line"
        /\ text.items[i].prefix \in {"THOUGHT:", "ACTION:", "PARAMS:"}}

\* C21: parse_white_agent_response never raises; a reply whose <json> block
\* holds an object with thought, tool and params gives exactly that object; a
\* reply in neither the <json> nor the THOUGHT:/ACTION:/PARAMS: format gives the
\* decision tool = "error", error_type = "parse_failure", raw_response = the
\* first 1000 characters of the reply.
C21_ParserTotal ==
    parsed.kind \notin {"pending", "idle"} =>
        /\ parsed.kind = "return"
        /\ (\E i \in JsonBlocks(response_text) :
                /\ JsonBlocks(response_text) = {i}
                /\ response_text.items[i].body = "object")
              => parsed.value = [thought |-> "x", tool |-> "browser_click",
                                 params |-> [ref |-> "s1"]]
        /\ (JsonBlocks(response_text) = {} /\ FormatLines(response_text) = {})
              => /\ DOMAIN parsed.value = {"thought", "tool", "params"}
                 /\ parsed.value.tool = "error"
                 /\ parsed.value.params.error_type = "parse_failure"
                 /\ parsed.value.params.raw_response.of = response_text.items
                 /\ parsed.value.params.raw_response.len
                        = Min(response_text.len, 1000)

\* ------------------------------------------- client shutdown and failed start

\* C22: stop() against a server terminates it, polls for its exit at most
\* POLL_LIMIT times and kills it only when it is still alive after those polls;
\* on every path (graceful exit, kill, exception) the call ends with the
\* process handle cleared, the client not ready and the working directory
\* removed.  stop() with no server changes nothing.
C22_StopAlwaysCleansUp ==
    [][/\ stop_log' # stop_log =>
             /\ server_process # 0
             /\ stop_log'.proc = server_process
             /\ stop_log'.terminate
             /\ stop_log'.polls <= POLL_LIMIT
             /\ stop_log'.kill => /\ stop_log'.polls = POLL_LIMIT
                                  /\ stop_log'.exit_at > stop_log'.sleeps
             /\ server_process' = 0
             /\ ~_initialized'
             /\ _user_data_dir' = None
             /\ server_process \notin dirs'
       /\ (op_pc = "idle" /\ server_process = 0 /\ last' # last
              /\ last'.op = "stop") =>
             UNCHANGED <<server_process, _message_id, _initialized, _server_info,
                         _tools_cache, _tools_by_name, _user_data_dir, launched,
                         sent, outstanding, holder, waiting, op_pc, op_id,
                         lifecycle, running, dirs, stop_log>>
      ]_vars

\* A stop() whose kill() raised, after a full round of polls, has ended.
C22_Witness ==
    /\ stop_log.kill
    /\ stop_log.error
    /\ stop_log.polls = POLL_LIMIT
    /\ server_process = 0
    /\ last.op = "stop"

\* C23: when the subprocess has exited at the poll after the grace sleep,
\* start() raises an error that carries the captured stderr, sends no
\* handshake request, removes the working directory and leaves no process
\* handle.
C23_EarlyExitFailsStart ==
    [][(launched' = launched + 1 /\ (launched + 1) \notin running') =>
          /\ last'.op = "start"
          /\ last'.raised
          /\ last'.why \in
                {"MCP server startup failed: MCP server failed to start: " \o e :
                    e \in {"Server error", "npx: command not found"}}
          /\ sent' = sent
          /\ outstanding' = {}
          /\ server_process' = 0
          /\ _user_data_dir' = None
          /\ (launched + 1) \notin dirs'
      ]_vars

\* A start() has failed on a server that exited with "Server error".
C23_Witness ==
    /\ last.op = "start"
    /\ last.raised
    /\ last.why = "MCP server startup failed: MCP server failed to start: Server error"
    /\ launched > 0
    /\ server_process = 0
    /\ sent = <<>>

\* C34: after a start() that raises, whether on an early exit of the process,
\* on a handshake error or timeout or on a failed tool discovery, the process
\* launched by that call is not running and its working directory is gone.
C34_FailedStartLeavesNothing ==
    [][/\ (op_pc \in {"start_init", "start_list"} /\ op_pc' = "idle"
              /\ last'.raised) =>
             /\ server_process \notin running'
             /\ server_process \notin dirs'
       /\ (op_pc = "idle" /\ launched' = launched + 1 /\ server_process' = 0) =>
             /\ (launched + 1) \notin running'
             /\ (launched + 1) \notin dirs'
      ]_vars

\* ------------------------------------------------------------ facade claims

\* An execute_action call on a started browser is being made with a tool of S.
FacadeCallOf(S) ==
    /\ facade_calls' = facade_calls + 1
    /\ facade_call'.tool \in S

\* C24: a close-style call to the facade is not forwarded to the browser; the
\* facade captures a final screenshot and returns success with browser_closed
\* set, leaving the step counter and the history as they were.
C24_CloseAnsweredByFacade ==
    [][(page /\ FacadeCallOf(CloseTools)) =>
          /\ ba_result'.success
          /\ ba_result'.browser_closed
          /\ Len(screenshots') = Len(screenshots) + 1
          /\ UNCHANGED <<ba_step_count, ba_action_history, page>>
      ]_vars

\* C25: an inspection call to the facade leaves the step counter unchanged and
\* is recorded in the action history.
C25_InspectionNotCounted ==
    [][(page /\ FacadeCallOf(InspectionTools)) =>
          /\ ba_step_count' = ba_step_count
          /\ Len(ba_action_history') = Len(ba_action_history) + 1
          /\ SubSeq(ba_action_history', 1, Len(ba_action_history))
                = ba_action_history
      ]_vars

\* C26: on a started browser every call that is neither inspection nor close
\* adds exactly one to the step counter; when it returns success exactly one
\* record has been appended and a screenshot named after the step number
\* taken; when it returns failure nothing has been appended; no step changes
\* or removes an existing history entry.
C26_CountedCalls ==
    [][/\ (page /\ FacadeCallOf(FacadeTools \ (InspectionTools \cup CloseTools))) =>
             /\ ba_step_count' = ba_step_count + 1
             /\ ba_result'.success =>
                   /\ Len(ba_action_history') = Len(ba_action_history) + 1
                   /\ screenshots'
                         = Append(screenshots, ScreenshotName(ba_step_count'))
             /\ ~ba_result'.success => ba_action_history' = ba_action_history
       /\ Len(ba_action_history') >= Len(ba_action_history)
       /\ SubSeq(ba_action_history', 1, Len(ba_action_history))
             = ba_action_history
      ]_vars

\* C27: when the screenshot capture fails after an action that succeeded, the
\* call still returns success and the action is in the history.
C27_CaptureFailureNotFatal ==
    [][(/\ page
        /\ FacadeCallOf(KnownTools)
        /\ ~facade_call'.action_raises
        /\ facade_call'.screenshot_raises) =>
          /\ ba_result'.success
          /\ ba_action_history'
                = Append(ba_action_history,
                         _format_action_for_history(facade_call'.tool))
      ]_vars

\* ------------------------------------------------------ replay agent claims

\* C30: an invocation of ReliabilityAgent yields exactly one model event.  With
\* k the number of earlier session events authored by the agent (events of
\* other authors do not count): k >= 7 gives browser_close; k = 6 gives
\* browser_close with empty params; k < 6 gives the k-th scripted tool with
\* the ref of the first element of the snapshot that matches the pattern of
\* the step, and browser_snapshot with empty params when no element matches.
C30_OneScriptedEvent ==
    [][invocations' = invocations + 1 =>
          LET k == Cardinality({i \in DOMAIN session_events :
                                   session_events[i] = "reliability_agent"})
              elements == {i \in DOMAIN user_content' :
                              /\ user_content'[i].matches
                              /\ user_content'[i].ref # None}
              tools == <<"browser_click", "browser_type", "browser_click",
                         "browser_type", "browser_click", "browser_click">>
          IN  /\ Len(yielded') = 1
              /\ yielded'[1].author = "reliability_agent"
              /\ yielded'[1].role = "model"
              /\ k >= 7 => yielded'[1].tool = "browser_close"
              /\ k = 6 => /\ yielded'[1].tool = "browser_close"
                          /\ DOMAIN yielded'[1].params = {}
              /\ (k < 6 /\ elements = {}) =>
                    /\ yielded'[1].tool = "browser_snapshot"
                    /\ DOMAIN yielded'[1].params = {}
              /\ (k < 6 /\ elements # {}) =>
                    /\ yielded'[1].tool = tools[k + 1]
                    /\ \E i \in elements :
                          /\ \A j \in elements : i <= j
                          /\ yielded'[1].params.ref = user_content'[i].ref
      ]_vars

\* The second scripted step has been answered, with an event of another
\* author in the session, from a snapshot whose first line matches the pattern
\* without a ref and whose second line is the element.
C30_Witness ==
    /\ Len(yielded) = 1
    /\ yielded[1].tool = "browser_type"
    /\ yielded[1].params = [ref |-> "s2", text |-> "T-Centralen"]
    /\ session_events = <<"reliability_agent", "user", "reliability_agent">>
    /\ Len(user_content) = 2
    /\ user_content[1] = [matches |-> TRUE, ref |-> None]
    /\ user_content[2] = [matches |-> TRUE, ref |-> "s2"]

\* C40: the scripted actions are emitted in order without skipping any: after
\* an invocation that answered browser_snapshot because the element of step k
\* was not found, the next invocation attempts step k again (it emits the
\* action of step k, or browser_snapshot once more).
C40_FallbackRetriesStep ==
    [][ (/\ invocations' = invocations + 1
         /\ Len(yielded) = 1
         /\ yielded[1].tool = "browser_snapshot") =>
            LET k == Cardinality({i \in DOMAIN session_events :
                                     session_events[i] = "reliability_agent"}) - 1
            IN  \/ yielded'[1].tool = "browser_snapshot"
                \/ /\ yielded'[1].tool = Script[k + 1].tool
                   /\ yielded'[1].thought = Script[k + 1].thought ]_vars

\* ------------------------------------------------- concurrent startup claims

\* C36: whatever the interleaving of concurrent start() calls, no subprocess
\* is launched for a client that already holds a server process, and at most
\* one call at a time is inside the startup section.
C36_AtMostOneServer ==
    [][/\ \A x \in ClientIds :
             cl_launched'[x] # cl_launched[x] => cl_server_process[x] = 0
       /\ Cardinality({c \in StartCallIds : st_pc'[c] = "starting"}) <= 1
      ]_vars

\* ---------------------------------------------------------- messaging claims
\* C31: for each URL, talk_to_agent with new_conversation=false hands
\* send_message the context id the most recent completed exchange with that URL
\* returned (none if there was none), and with new_conversation=true no context
\* id; a call that raises leaves the stored context ids unchanged.
C31_ContextIdFollowsLastCompleted ==
    [][ talks' = talks + 1 =>
            /\ talk'.context_id =
                  IF talk'.new_conversation THEN None ELSE completed_ids[talk'.url]
            /\ talk'.raised # None => _context_ids' = _context_ids ]_vars

\* C32: send_message makes at most max_retries + 1 attempts; an attempt that
\* raises is retried exactly when its error is a rate-limit error and fewer than
\* max_retries retries were made, after a sleep of base_delay * 2^retry_count;
\* any other error, and a rate-limit error once the retries are used up, is
\* re-raised to the caller at once.
C32_RetriesOnlyRateLimit ==
    /\ [](/\ attempts <= max_retries + 1
          /\ retry_count <= max_retries
          /\ Len(delays) = retry_count
          /\ \A i \in 1..Len(delays) : delays[i] = base_delay * Pow(2, i - 1))
    /\ [][ \A text \in SendErrors : (attempts' = attempts + 1 /\ attempt_error' = {text}) =>
              IF IsRateLimitText(text) /\ retry_count < max_retries
              THEN /\ sm_pc' = "attempt"
                   /\ retry_count' = retry_count + 1
                   /\ delays' = Append(delays, base_delay * Pow(2, retry_count))
              ELSE /\ sm_pc' = "raised"
                   /\ sm_result' = [raised |-> text]
                   /\ attempts' = retry_count + 1
                   /\ delays' = delays ]_vars

\* Three rate-limit errors with max_retries = 2: two sleeps, then the error
\* reaches the caller.
C32_Witness ==
    /\ sm_pc = "raised"
    /\ max_retries = 2
    /\ attempts = 3
    /\ delays = <<2, 4>>
    /\ \E text \in attempt_error : IsRateLimitText(text)

====
